---- MODULE Spec2Model ----
(***************************************************************************)
(* State-machine model of the viral-clips pipeline: the candidate store    *)
(* (videos, compilations, accounts, routing rules, uploads), the grouping  *)
(* engine (services/grouper.py), the renderer's status handling            *)
(* (services/stitcher.py), review (pipeline.py), the upload router         *)
(* (services/upload_router.py, services/account_manager.py) and the        *)
(* scheduler jobs that drive them (scheduler/jobs.py).                     *)
(*                                                                         *)
(* Conventions.  Scores (0.0-1.0 floats in the code) are integers in       *)
(* hundredths.  Time is an integer number of minutes.  Generated ids       *)
(* (uuid4) are fresh naturals taken from a counter, so creation order is   *)
(* id order.  The empty compilation_id '' is NoComp, a NULL last_upload_at *)
(* is NoTime.  A long external call (render, upload) splits its handler    *)
(* into the step before and the step after the call; a handler in the      *)
(* middle of such a call is recorded in rjob / inflight, and no other      *)
(* operation runs meanwhile (the design is sequential).                    *)
(***************************************************************************)
EXTENDS Integers, Sequences, FiniteSets, TLC

VARIABLES
    videos,     \* table videos: id -> row
    comps,      \* table compilations: id -> row
    nextComp,   \* next fresh compilation id
    files,      \* ids of compilations whose rendered output file exists on disk
    accounts,   \* table accounts: id -> row
    rules,      \* table routing_rules, in insertion order
    uploads,    \* table uploads, in creation order (the index is the id)
    attempts,   \* history: attempts[i] counts the mark_upload_started of upload i
    now,        \* wall clock, minutes
    inflight,   \* the upload handler's locals during the external upload call
    rjob,       \* the render handler's locals during the external render call
    ret,        \* what the last call returned
    disk,       \* ids of videos whose downloaded file exists in the download dir
    oracle_calls, \* history: oracle_calls[v] counts the chat completions asked for v
    txn         \* the uncommitted writes of the open database transaction

vars == <<videos, comps, nextComp, files, accounts, rules, uploads, attempts,
          now, inflight, rjob, ret, disk, oracle_calls, txn>>

-----------------------------------------------------------------------------
(* Program constants *)

NoComp == 0
NoTime == -1
MIN_UPLOAD_INTERVAL_MINUTES == 30
MAX_RETRIES == 3
PENDING_SCAN_LIMIT == 10
RENDER_JOB_LIMIT == 2
MIN_CLIPS == 5
MAX_CLIPS == 8
AUTO_APPROVE_THRESHOLD == 75
MIN_COMPILATION_SCORE == 60
MIN_VISUAL_INDEPENDENCE == 60
MEGA_MIN_SOURCES == 2
MEGA_DEFAULT_SOURCES == 5
MEGA_CONFIDENCE == 90
MAX_DOWNLOAD_RETRIES == 3
MIN_CLASSIFICATION_CONFIDENCE == 30
CLASSIFY_MIN_COMPILATION_SCORE == 60
CLASSIFY_MIN_VISUAL_INDEPENDENCE == 60
PRE_FILTER_CONFIDENCE == 95
PARSE_ERROR_CONFIDENCE == 50
RECLASSIFY_THRESHOLD == 50

DefaultPlatforms == <<"youtube", "tiktok">>
CategoryNames == <<"fails", "comedy">>
SubcategoryNames == <<"physical", "skill">>

(* Bounds of the model *)

MaxTime == 30
TickMinutes == 30
MaxLimit == 2
MaxFailures == 3
MaxComps == 3
QueuedComps == 6
MaxOracleCalls == 2
BigLimit == 12

-----------------------------------------------------------------------------
(* Sequence helpers *)

Min2(a, b) == IF a < b THEN a ELSE b
Max2(a, b) == IF a > b THEN a ELSE b

RECURSIVE FilterSeq(_, _)
\* the subsequence of s whose elements are in the set keep
FilterSeq(s, keep) ==
    IF s = <<>> THEN <<>>
    ELSE IF Head(s) \in keep THEN <<Head(s)>> \o FilterSeq(Tail(s), keep)
    ELSE FilterSeq(Tail(s), keep)

Prefix(s, n) == SubSeq(s, 1, Min2(n, Len(s)))

RECURSIVE InsertDesc(_, _)
\* x placed after every element whose key is >= x.key
InsertDesc(sorted, x) ==
    IF sorted = <<>> THEN <<x>>
    ELSE IF Head(sorted).key >= x.key
         THEN <<Head(sorted)>> \o InsertDesc(Tail(sorted), x)
         ELSE <<x>> \o sorted

RECURSIVE StableSortDesc(_)
\* list.sort(key=..., reverse=True): descending by key, equal keys in input order
StableSortDesc(s) ==
    IF s = <<>> THEN <<>>
    ELSE InsertDesc(StableSortDesc(SubSeq(s, 1, Len(s) - 1)), s[Len(s)])

RECURSIVE SetToSeqAsc(_)
\* the elements of a finite set of integers, ascending
SetToSeqAsc(S) ==
    IF S = {} THEN <<>>
    ELSE LET m == CHOOSE x \in S : \A y \in S : x <= y
         IN <<m>> \o SetToSeqAsc(S \ {m})

RECURSIVE SetToSeqDesc(_)
\* the elements of a finite set of integers, descending
SetToSeqDesc(S) ==
    IF S = {} THEN <<>>
    ELSE LET m == CHOOSE x \in S : \A y \in S : x >= y
         IN <<m>> \o SetToSeqDesc(S \ {m})

Range(s) == {s[i] : i \in 1..Len(s)}

Idle == inflight = <<>> /\ rjob = <<>> /\ txn = <<>>
NoRet == [op |-> "none"]

-----------------------------------------------------------------------------
(* core/database.py queries *)

\* get_compilations_by_status: ORDER BY created_at DESC, optional LIMIT
GetCompilationsByStatus(cs, status, limit) ==
    LET ids == SetToSeqDesc({c \in DOMAIN cs : cs[c].status = status})
    IN IF limit = 0 THEN ids ELSE Prefix(ids, limit)

\* a query returning only the first clip of the compilation
GetVideosForCompilationFirst(vs, c) ==
    LET mine == {v \in DOMAIN vs : vs[v].compilation_id = c /\ vs[v].clip_order = 0}
    IN SetToSeqAsc(mine)

\* get_videos_for_compilation: ORDER BY clip_order (equal orders by rowid)
GetVideosForCompilation(vs, c) ==
    LET mine == {v \in DOMAIN vs : vs[v].compilation_id = c}
        keyed == [i \in 1..Cardinality(mine) |->
                    [key |-> 0 - vs[SetToSeqAsc(mine)[i]].clip_order,
                     val |-> SetToSeqAsc(mine)[i]]]
        sorted == StableSortDesc(keyed)
    IN [i \in 1..Len(sorted) |-> sorted[i].val]

\* get_pending_uploads: status = 'pending' ORDER BY created_at, optional LIMIT
GetPendingUploadsDb(ups, limit) ==
    LET idx == SetToSeqAsc({i \in 1..Len(ups) : ups[i].status = "pending"})
    IN IF limit = 0 THEN idx ELSE Prefix(idx, limit)

\* get_uploads_by_status
GetUploadsByStatus(ups, status) ==
    SetToSeqAsc({i \in 1..Len(ups) : ups[i].status = status})

\* faulty variant of upload_exists_for_compilation_account: only uploads still
\* queued or in progress count
UploadExistsActiveOnly(ups, c, a) ==
    \E i \in 1..Len(ups) : /\ ups[i].compilation_id = c
                           /\ ups[i].account_id = a
                           /\ ups[i].status \in {"pending", "uploading"}

\* upload_exists_for_compilation_account: any status counts
UploadExistsForCompilationAccount(ups, c, a) ==
    \E i \in 1..Len(ups) : ups[i].compilation_id = c /\ ups[i].account_id = a

\* get_routing_rules_for_category: join on active accounts, ORDER BY priority DESC
GetRoutingRulesForCategory(category) ==
    LET idx == SetToSeqAsc({i \in 1..Len(rules) :
                   /\ rules[i].category = category
                   /\ rules[i].account_id \in DOMAIN accounts
                   /\ accounts[rules[i].account_id].is_active})
        keyed == [i \in 1..Len(idx) |-> [key |-> rules[idx[i]].priority, val |-> idx[i]]]
        sorted == StableSortDesc(keyed)
    IN [i \in 1..Len(sorted) |-> rules[sorted[i].val]]

\* get_accounts_by_strategy(strategy, platform): active only, ORDER BY name
GetAccountsByStrategy(strategy, platform) ==
    SetToSeqAsc({a \in DOMAIN accounts :
        /\ accounts[a].content_strategy = strategy
        /\ accounts[a].platform = platform
        /\ accounts[a].is_active})

-----------------------------------------------------------------------------
(* services/account_manager.py *)

\* can_upload
CanUpload(a) ==
    /\ a \in DOMAIN accounts
    /\ accounts[a].is_active
    /\ accounts[a].has_credentials
    /\ accounts[a].uploads_today < accounts[a].daily_upload_limit

\* get_available_accounts(platform, strategy)
GetAvailableAccounts(platform, strategy) ==
    LET accs == GetAccountsByStrategy(strategy, platform)
    IN FilterSeq(accs, {a \in Range(accs) :
            /\ accounts[a].is_active
            /\ accounts[a].has_credentials
            /\ accounts[a].uploads_today < accounts[a].daily_upload_limit})

-----------------------------------------------------------------------------
(* services/upload_router.py *)

\* faulty variant of _get_matching_accounts: no rate-limit check
GetMatchingAccountsIgnoringCap(comp, platform) ==
    LET rs == GetRoutingRulesForCategory(comp.category)
        ok(r) == /\ accounts[r.account_id].platform = platform
                 /\ accounts[r.account_id].is_active
                 /\ accounts[r.account_id].has_credentials
                 /\ ~(comp.confidence_score < r.min_confidence)
        keep == SetToSeqAsc({i \in 1..Len(rs) : ok(rs[i])})
        matching == [i \in 1..Len(keep) |->
            [key |-> rs[keep[i]].priority * 10
                     + (accounts[rs[keep[i]].account_id].daily_upload_limit
                        - accounts[rs[keep[i]].account_id].uploads_today),
             val |-> rs[keep[i]].account_id]]
    IN StableSortDesc(matching)

\* _get_matching_accounts: the accounts of the category's rules that pass every
\* filter, best priority score first (a sequence of [key |-> score, val |-> account])
GetMatchingAccounts(comp, platform) ==
    LET rs == GetRoutingRulesForCategory(comp.category)
        ok(r) == /\ accounts[r.account_id].platform = platform
                 /\ accounts[r.account_id].is_active
                 /\ accounts[r.account_id].has_credentials
                 /\ ~(comp.confidence_score < r.min_confidence)
                 /\ ~(accounts[r.account_id].uploads_today
                        >= accounts[r.account_id].daily_upload_limit)
        keep == SetToSeqAsc({i \in 1..Len(rs) : ok(rs[i])})
        matching == [i \in 1..Len(keep) |->
            [key |-> rs[keep[i]].priority * 10
                     + (accounts[rs[keep[i]].account_id].daily_upload_limit
                        - accounts[rs[keep[i]].account_id].uploads_today),
             val |-> rs[keep[i]].account_id]]
    IN StableSortDesc(matching)

\* faulty variant of the strategy mapping: every strategy is acceptable
FallbackStrategiesAny(category) == <<"fails", "comedy", "mixed">>

\* the strategies _get_fallback_accounts tries for a category, in order
FallbackStrategies(category) ==
    IF category = "fails" THEN <<"fails", "mixed">>
    ELSE IF category = "comedy" THEN <<"comedy", "mixed">>
    ELSE <<"mixed">>

RECURSIVE AppendNew(_, _)
\* for acc in accounts: if acc not in available: available.append(acc)
AppendNew(available, accs) ==
    IF accs = <<>> THEN available
    ELSE AppendNew(IF Head(accs) \in Range(available) THEN available
                   ELSE Append(available, Head(accs)), Tail(accs))

RECURSIVE GatherAvailable(_, _, _)
GatherAvailable(available, strategies, platform) ==
    IF strategies = <<>> THEN available
    ELSE GatherAvailable(
            AppendNew(available, GetAvailableAccounts(platform, Head(strategies))),
            Tail(strategies), platform)

\* _get_fallback_accounts: available accounts of an acceptable strategy, fewest
\* uploads_today first
GetFallbackAccounts(comp, platform) ==
    LET available == GatherAvailable(<<>>, FallbackStrategies(comp.category), platform)
        keyed == [i \in 1..Len(available) |->
                    [key |-> 0 - accounts[available[i]].uploads_today,
                     val |-> available[i]]]
        sorted == StableSortDesc(keyed)
    IN [i \in 1..Len(sorted) |-> sorted[i].val]

\* the account route_compilation picks for one platform, NoAccount if none
NoAccount == 0
PickAccount(comp, platform) ==
    LET matching == GetMatchingAccounts(comp, platform)
        fallback == GetFallbackAccounts(comp, platform)
    IN IF matching # <<>> THEN matching[1].val
       ELSE IF fallback # <<>> THEN fallback[1]
       ELSE NoAccount

NewUpload(c, a, platform) ==
    [compilation_id |-> c, account_id |-> a, platform |-> platform,
     status |-> "pending", retry_count |-> 0]

RECURSIVE RoutePlatforms(_, _, _, _)
\* the platform loop of route_compilation: the uploads table after it
RoutePlatforms(ups, c, comp, platforms) ==
    IF platforms = <<>> THEN ups
    ELSE LET account == PickAccount(comp, Head(platforms))
             ups2 == IF account = NoAccount THEN ups
                     ELSE IF UploadExistsForCompilationAccount(ups, c, account) THEN ups
                     ELSE Append(ups, NewUpload(c, account, Head(platforms)))
         IN RoutePlatforms(ups2, c, comp, Tail(platforms))

\* faulty variant of route_compilation: no status check
RouteCompilationUnguarded(ups, c, comp, platforms) ==
    RoutePlatforms(ups, c, comp, platforms)

\* route_compilation(compilation, platforms): the uploads table after the call
RouteCompilationUploads(ups, c, comp, platforms) ==
    IF comp.status # "approved" THEN ups
    ELSE RoutePlatforms(ups, c, comp, platforms)

RECURSIVE RouteAll(_, _)
\* the loop of route_approved_compilations over the approved compilations
RouteAll(ups, approved) ==
    IF approved = <<>> THEN ups
    ELSE LET c == Head(approved)
             has_pending == \E i \in 1..Len(ups) :
                 /\ ups[i].compilation_id = c
                 /\ ups[i].status \in {"pending", "uploading"}
         IN RouteAll(IF has_pending THEN ups
                     ELSE RouteCompilationUploads(ups, c, comps[c], DefaultPlatforms),
                     Tail(approved))

\* faulty variant of the cool-down test: the comparison turned round
InCooldownReversed(a) ==
    /\ accounts[a].last_upload_at # NoTime
    /\ now - accounts[a].last_upload_at > MIN_UPLOAD_INTERVAL_MINUTES

\* the cool-down test of get_next_upload
InCooldown(a) ==
    /\ accounts[a].last_upload_at # NoTime
    /\ now - accounts[a].last_upload_at < MIN_UPLOAD_INTERVAL_MINUTES

\* the pending uploads get_next_upload looks at: the first PENDING_SCAN_LIMIT
\* pending uploads of any platform, then those of the platform
ScannedUploads(platform) ==
    LET pending == GetPendingUploadsDb(uploads, PENDING_SCAN_LIMIT)
    IN FilterSeq(pending, {i \in Range(pending) : uploads[i].platform = platform})

\* whether the loop of get_next_upload returns upload i rather than skipping it
UploadReady(i) ==
    /\ uploads[i].account_id \in DOMAIN accounts
    /\ CanUpload(uploads[i].account_id)
    /\ ~InCooldown(uploads[i].account_id)
    /\ uploads[i].compilation_id \in DOMAIN comps

NoUpload == 0
\* get_next_upload(platform): the id of the upload returned, NoUpload for None
GetNextUpload(platform) ==
    LET scanned == ScannedUploads(platform)
        ready == FilterSeq(scanned, {i \in Range(scanned) : UploadReady(i)})
    IN IF ready = <<>> THEN NoUpload ELSE ready[1]

\* mark_upload_started
MarkUploadStarted(ups, i) == [ups EXCEPT ![i].status = "uploading"]

\* mark_upload_success (the upload row)
MarkUploadSuccess(ups, i) == [ups EXCEPT ![i].status = "success"]

\* increment_upload_count leaving last_upload_at as it was
IncrementUploadCountKeepsTime(accs, a) ==
    IF a \in DOMAIN accs
    THEN [accs EXCEPT ![a].uploads_today = @ + 1]
    ELSE accs

\* increment_upload_count, called by record_upload from mark_upload_success
IncrementUploadCount(accs, a) ==
    IF a \in DOMAIN accs
    THEN [accs EXCEPT ![a].uploads_today = @ + 1, ![a].last_upload_at = now]
    ELSE accs

\* faulty variant of mark_upload_failed: the upload goes straight back to the queue
MarkUploadFailedRequeues(ups, i) ==
    [ups EXCEPT ![i].status = "pending", ![i].retry_count = @ + 1]

\* mark_upload_failed
MarkUploadFailed(ups, i) ==
    [ups EXCEPT ![i].status = "failed", ![i].retry_count = @ + 1]

\* faulty variant of retry_failed_uploads: retry_count <= max_retries
RetryFailedUploadsInclusive(ups, max_retries) ==
    [i \in 1..Len(ups) |->
        IF ups[i].status = "failed" /\ ups[i].retry_count <= max_retries
        THEN [ups[i] EXCEPT !.status = "pending"]
        ELSE ups[i]]

\* retry_failed_uploads(max_retries)
RetryFailedUploads(ups, max_retries) ==
    [i \in 1..Len(ups) |->
        IF ups[i].status = "failed" /\ ups[i].retry_count < max_retries
        THEN [ups[i] EXCEPT !.status = "pending"]
        ELSE ups[i]]

-----------------------------------------------------------------------------
(* Grouping: services/grouper.py and its queries in core/database.py *)

\* s sorted descending by K, equal keys in input order
SortDescBy(s, key) ==
    LET keyed == [i \in 1..Len(s) |-> [key |-> key[s[i]], val |-> s[i]]]
        sorted == StableSortDesc(keyed)
    IN [i \in 1..Len(sorted) |-> sorted[i].val]

\* Video.engagement_score
EngagementScore(v) == v.likes + v.shares * 2

\* the rows both grouping queries select: CLASSIFIED and unassigned
Groupable(vs, category) ==
    {v \in DOMAIN vs : /\ vs[v].category = category
                       /\ vs[v].status = "classified"
                       /\ vs[v].compilation_id = NoComp}

\* get_videos_by_category(category, CLASSIFIED, unassigned_only)
GetVideosByCategory(vs, category) ==
    LET K(v) == EngagementScore(vs[v])
    IN SortDescBy(SetToSeqAsc(Groupable(vs, category)), [v \in DOMAIN vs |-> K(v)])

\* get_videos_by_subcategory(category, subcategory, CLASSIFIED, unassigned_only)
GetVideosBySubcategory(vs, category, subcategory) ==
    LET K1(v) == EngagementScore(vs[v])
        K2(v) == vs[v].compilation_score
        rows == {v \in Groupable(vs, category) : vs[v].subcategory = subcategory}
    IN SortDescBy(SortDescBy(SetToSeqAsc(rows), [v \in rows |-> K1(v)]),
                  [v \in rows |-> K2(v)])

\* get_available_subcategories(category, min_videos): the subcategories with
\* at least min_videos groupable rows, most rows first
GetAvailableSubcategories(vs, category, min_videos) ==
    LET Count(sc) == Cardinality({v \in Groupable(vs, category) : vs[v].subcategory = sc})
        names == SetToSeqAsc({i \in 1..Len(SubcategoryNames) :
                                 Count(SubcategoryNames[i]) >= min_videos})
        K(i) == Count(SubcategoryNames[i])
        sorted == SortDescBy(names, [i \in 1..Len(SubcategoryNames) |-> K(i)])
    IN [i \in 1..Len(sorted) |-> SubcategoryNames[sorted[i]]]

\* _filter_quality_videos treating a clip as legacy when either score is 0
FilterQualityVideosEitherZero(vs, ids) ==
    FilterSeq(ids, {v \in Range(ids) :
        \/ vs[v].compilation_score = 0 \/ vs[v].visual_independence = 0
        \/ /\ vs[v].compilation_score >= MIN_COMPILATION_SCORE
           /\ vs[v].visual_independence >= MIN_VISUAL_INDEPENDENCE})

\* _filter_quality_videos letting every video through
FilterQualityVideosKeepsAll(vs, ids) == ids

\* _filter_quality_videos
FilterQualityVideos(vs, ids) ==
    FilterSeq(ids, {v \in Range(ids) :
        \/ vs[v].compilation_score = 0 /\ vs[v].visual_independence = 0
        \/ /\ vs[v].compilation_score >= MIN_COMPILATION_SCORE
           /\ vs[v].visual_independence >= MIN_VISUAL_INDEPENDENCE})

\* _select_best_videos
SelectBestVideos(vs, ids, num_clips) ==
    LET K(v) == vs[v].likes
    IN Prefix(SortDescBy(FilterQualityVideos(vs, ids), [v \in DOMAIN vs |-> K(v)]), num_clips)

RECURSIVE SumSeq(_)
SumSeq(s) == IF s = <<>> THEN 0 ELSE Head(s) + SumSeq(Tail(s))

\* sum(xs) / len(xs) over the positive values, 0.0 if there is none
MeanPositive(values) ==
    LET pos == SetToSeqAsc({i \in 1..Len(values) : values[i] > 0})
    IN IF pos = <<>> THEN 0
       ELSE SumSeq([i \in 1..Len(pos) |-> values[pos[i]]]) \div Len(pos)

\* _calculate_confidence_score
CalculateConfidenceScore(vs, ids) ==
    MeanPositive([i \in 1..Len(ids) |-> vs[ids[i]].category_confidence])

\* _calculate_compilation_quality
CalculateCompilationQuality(vs, ids) ==
    MeanPositive([i \in 1..Len(ids) |-> vs[ids[i]].compilation_score])

\* _calculate_visual_independence
CalculateVisualIndependence(vs, ids) ==
    MeanPositive([i \in 1..Len(ids) |-> vs[ids[i]].visual_independence])

\* _should_auto_approve without its third conjunct
ShouldAutoApproveIgnoringVisual(threshold, confidence_score, compilation_quality, visual_independence) ==
    /\ confidence_score >= threshold
    /\ compilation_quality >= threshold

\* _should_auto_approve with strict comparisons
ShouldAutoApproveStrict(threshold, confidence_score, compilation_quality, visual_independence) ==
    /\ confidence_score > threshold
    /\ compilation_quality > threshold
    /\ visual_independence > threshold

\* _should_auto_approve of a GrouperService whose auto_approve_threshold is
\* threshold
ShouldAutoApproveAt(threshold, confidence_score, compilation_quality, visual_independence) ==
    /\ confidence_score >= threshold
    /\ compilation_quality >= threshold
    /\ visual_independence >= threshold

\* _should_auto_approve of a GrouperService built with the configured threshold
ShouldAutoApprove(confidence_score, compilation_quality, visual_independence) ==
    ShouldAutoApproveAt(AUTO_APPROVE_THRESHOLD, confidence_score,
                        compilation_quality, visual_independence)

\* the clip count without the max_clips cap
DetermineClipCountUncapped(num_clips, available) ==
    IF num_clips = 0 THEN available
    ELSE Max2(Min2(num_clips, available), MIN_CLIPS)

\* the clip count both creators settle on; num_clips = 0 stands for None
DetermineClipCount(num_clips, available) ==
    IF num_clips = 0 THEN Min2(available, MAX_CLIPS)
    ELSE Max2(Min2(Min2(num_clips, available), MAX_CLIPS), MIN_CLIPS)

\* the assignment loop numbering the clips from 1
AssignVideosFromOne(vs, selected, c) ==
    [v \in DOMAIN vs |->
        IF \E i \in 1..Len(selected) : selected[i] = v
        THEN [vs[v] EXCEPT !.compilation_id = c,
                           !.clip_order = CHOOSE i \in 1..Len(selected) : selected[i] = v,
                           !.status = "grouped"]
        ELSE vs[v]]

\* the videos table after the loop that assigns the selected videos
AssignVideos(vs, selected, c) ==
    [v \in DOMAIN vs |->
        IF \E i \in 1..Len(selected) : selected[i] = v
        THEN [vs[v] EXCEPT !.compilation_id = c,
                           !.clip_order = (CHOOSE i \in 1..Len(selected) : selected[i] = v) - 1,
                           !.status = "grouped"]
        ELSE vs[v]]

\* insert_compilation
InsertCompilation(cs, c, row) ==
    [x \in DOMAIN cs \cup {c} |-> IF x = c THEN row ELSE cs[x]]

\* the tail shared by create_compilation_by_subcategory and create_compilation:
\* select, score, insert the compilation, assign the videos.  st is the store
\* [videos, comps, next, made]; made lists the categories of what was created
BuildCompilation(st, category, quality_videos, num_clips) ==
    LET n == DetermineClipCount(num_clips, Len(quality_videos))
        selected == SelectBestVideos(st.videos, quality_videos, n)
        confidence == CalculateConfidenceScore(st.videos, selected)
        quality == CalculateCompilationQuality(st.videos, selected)
        visual == CalculateVisualIndependence(st.videos, selected)
        row == [category |-> category, status |-> "pending", video_ids |-> selected,
                confidence_score |-> confidence,
                auto_approved |-> ShouldAutoApprove(confidence, quality, visual)]
    IN [videos |-> AssignVideos(st.videos, selected, st.next),
        comps |-> InsertCompilation(st.comps, st.next, row),
        next |-> st.next + 1,
        made |-> Append(st.made, category)]

\* create_compilation_by_subcategory
CreateCompilationBySubcategory(st, category, subcategory, num_clips) ==
    LET quality_videos ==
            FilterQualityVideos(st.videos,
                GetVideosBySubcategory(st.videos, category, subcategory))
    IN IF Len(quality_videos) < MIN_CLIPS THEN st
       ELSE BuildCompilation(st, category, quality_videos, num_clips)

\* the number of quality videos a subcategory offers
QualityCount(vs, category, subcategory) ==
    Len(FilterQualityVideos(vs, GetVideosBySubcategory(vs, category, subcategory)))

RECURSIVE BestSubcategory(_, _, _, _, _)
\* the loop of create_compilation that keeps the subcategory with most quality
\* videos; "" for None
BestSubcategory(vs, category, subcats, best_subcat, best_count) ==
    IF subcats = <<>> THEN best_subcat
    ELSE LET n == QualityCount(vs, category, Head(subcats))
         IN IF n >= MIN_CLIPS /\ n > best_count
            THEN BestSubcategory(vs, category, Tail(subcats), Head(subcats), n)
            ELSE BestSubcategory(vs, category, Tail(subcats), best_subcat, best_count)

\* create_compilation
CreateCompilationIn(st, category, num_clips) ==
    LET subcats == GetAvailableSubcategories(st.videos, category, MIN_CLIPS)
        best == BestSubcategory(st.videos, category, subcats, "", 0)
        quality_videos ==
            FilterQualityVideos(st.videos, GetVideosByCategory(st.videos, category))
    IN IF best # "" THEN CreateCompilationBySubcategory(st, category, best, num_clips)
       ELSE IF Len(quality_videos) < MIN_CLIPS THEN st
       ELSE BuildCompilation(st, category, quality_videos, num_clips)

\* get_groupable_subcategories, flattened and sorted as create_compilations does:
\* the (category, subcategory, count) groups, most quality videos first
GroupableSubcategoryGroups(vs) ==
    LET pairs == [i \in 1..(Len(CategoryNames) * Len(SubcategoryNames)) |->
                    [category |-> CategoryNames[((i - 1) \div Len(SubcategoryNames)) + 1],
                     subcategory |-> SubcategoryNames[((i - 1) % Len(SubcategoryNames)) + 1]]]
        Listed(g) == \E j \in 1..Len(GetAvailableSubcategories(vs, g.category, MIN_CLIPS)) :
                        GetAvailableSubcategories(vs, g.category, MIN_CLIPS)[j] = g.subcategory
        keep == SetToSeqAsc({i \in 1..Len(pairs) :
                    /\ Listed(pairs[i])
                    /\ QualityCount(vs, pairs[i].category, pairs[i].subcategory) >= MIN_CLIPS})
        \* within a category the rows come most-populated first
        Rows(i) == Cardinality({v \in Groupable(vs, pairs[i].category) :
                                    vs[v].subcategory = pairs[i].subcategory})
        Cat(i) == 0 - ((i - 1) \div Len(SubcategoryNames))
        K(i) == QualityCount(vs, pairs[i].category, pairs[i].subcategory)
        sorted == SortDescBy(SortDescBy(SortDescBy(keep, [i \in DOMAIN pairs |-> Rows(i)]),
                                        [i \in DOMAIN pairs |-> Cat(i)]),
                             [i \in DOMAIN pairs |-> K(i)])
    IN [i \in 1..Len(sorted) |-> pairs[sorted[i]]]

\* get_groupable_categories, sorted as create_compilations does
GroupableCategories(vs) ==
    LET Count(i) == Len(FilterQualityVideos(vs, GetVideosByCategory(vs, CategoryNames[i])))
        keep == SetToSeqAsc({i \in 1..Len(CategoryNames) : Count(i) >= MIN_CLIPS})
        sorted == SortDescBy(keep, [i \in 1..Len(CategoryNames) |-> Count(i)])
    IN [i \in 1..Len(sorted) |-> CategoryNames[sorted[i]]]

RECURSIVE CreateSubcategoryLoop(_, _, _, _)
\* the first loop of create_compilations
CreateSubcategoryLoop(st, groups, max_compilations, num_clips_per) ==
    IF groups = <<>> \/ Len(st.made) >= max_compilations THEN st
    ELSE CreateSubcategoryLoop(
            CreateCompilationBySubcategory(st, Head(groups).category,
                                           Head(groups).subcategory, num_clips_per),
            Tail(groups), max_compilations, num_clips_per)

RECURSIVE CreateCategoryLoop(_, _, _, _)
\* the second loop of create_compilations
CreateCategoryLoop(st, categories, max_compilations, num_clips_per) ==
    IF categories = <<>> \/ Len(st.made) >= max_compilations THEN st
    ELSE IF Head(categories) \in Range(st.made)
    THEN CreateCategoryLoop(st, Tail(categories), max_compilations, num_clips_per)
    ELSE CreateCategoryLoop(CreateCompilationIn(st, Head(categories), num_clips_per),
                            Tail(categories), max_compilations, num_clips_per)

\* create_compilations(max_compilations, num_clips_per)
CreateCompilationsIn(st, max_compilations, num_clips_per) ==
    LET st1 == CreateSubcategoryLoop(st, GroupableSubcategoryGroups(st.videos),
                                     max_compilations, num_clips_per)
    IN IF Len(st1.made) < max_compilations
       THEN CreateCategoryLoop(st1, GroupableCategories(st1.videos),
                               max_compilations, num_clips_per)
       ELSE st1

\* get_source_compilations(status=DOWNLOADED)
GetSourceCompilations(vs) ==
    LET K1(v) == vs[v].duration
        K2(v) == vs[v].compilation_score
        rows == {v \in DOMAIN vs : vs[v].is_source_compilation /\ vs[v].status = "downloaded"}
    IN SortDescBy(SortDescBy(SetToSeqAsc(rows), [v \in rows |-> K1(v)]),
                  [v \in rows |-> K2(v)])

\* create_mega_compilation(compilation_type, num_sources); "" and 0 stand for None
CreateMegaCompilationIn(st, compilation_type, num_sources) ==
    LET all == GetSourceCompilations(st.videos)
        TypeOf(v) == IF st.videos[v].compilation_type = "" THEN "mixed"
                     ELSE st.videos[v].compilation_type
        source_comps == IF compilation_type = "" THEN all
                        ELSE FilterSeq(all, {v \in Range(all) : TypeOf(v) = compilation_type})
        n == IF num_sources = 0 THEN Min2(Len(source_comps), MEGA_DEFAULT_SOURCES)
             ELSE Min2(num_sources, Len(source_comps))
        K(v) == st.videos[v].source_score
        selected == Prefix(SortDescBy(source_comps, [v \in DOMAIN st.videos |-> K(v)]), n)
        category == IF compilation_type = "" THEN "mega" ELSE compilation_type
        row == [category |-> category, status |-> "pending", video_ids |-> selected,
                confidence_score |-> MEGA_CONFIDENCE, auto_approved |-> TRUE]
    IN IF Len(source_comps) < MEGA_MIN_SOURCES THEN st
       ELSE [videos |-> AssignVideos(st.videos, selected, st.next),
             comps |-> InsertCompilation(st.comps, st.next, row),
             next |-> st.next + 1,
             made |-> Append(st.made, category)]

\* faulty variant of the UPDATE of delete_compilation: the member rows lose
\* their compilation_id but keep their status
UnassignVideosKeepsStatus(st, c) ==
    [st EXCEPT
        !.videos = [v \in DOMAIN st.videos |->
                      IF st.videos[v].compilation_id = c
                      THEN [st.videos[v] EXCEPT !.compilation_id = NoComp,
                                                !.clip_order = 0]
                      ELSE st.videos[v]]]

\* faulty variant of the UPDATE of delete_compilation: the member rows keep
\* their clip_order
UnassignVideosKeepsClipOrder(st, c) ==
    [st EXCEPT
        !.videos = [v \in DOMAIN st.videos |->
                      IF st.videos[v].compilation_id = c
                      THEN [st.videos[v] EXCEPT !.compilation_id = NoComp,
                                                !.status = "classified"]
                      ELSE st.videos[v]]]

\* delete_compilation, first statement: UPDATE videos SET compilation_id = '',
\* clip_order = 0, status = 'classified' WHERE compilation_id = c
UnassignVideos(st, c) ==
    [st EXCEPT
        !.videos = [v \in DOMAIN st.videos |->
                      IF st.videos[v].compilation_id = c
                      THEN [st.videos[v] EXCEPT !.compilation_id = NoComp,
                                                !.clip_order = 0,
                                                !.status = "classified"]
                      ELSE st.videos[v]]]

\* delete_compilation, second statement: DELETE FROM compilations WHERE id = c
DeleteCompilationRow(st, c) ==
    [st EXCEPT !.comps = [x \in DOMAIN st.comps \ {c} |-> st.comps[x]]]

\* delete_compilation: both statements, as one transaction leaves the store
DeleteCompilation(st, c) == DeleteCompilationRow(UnassignVideos(st, c), c)

\* faulty variant of _get_connection: every statement commits as it executes
VisibleStoreAutocommit(committed, pending) == pending

\* _get_connection: the store the database holds while a transaction with the
\* writes `pending` is open and not committed (sqlite3 opens the transaction at
\* the first UPDATE/DELETE; commit happens when the with-block exits)
VisibleStore(committed, pending) == committed

\* faulty variant of ungroup_compilation's guard: any compilation not yet uploaded
UngroupAllowedUnlessUploaded(st, c) ==
    c \in DOMAIN st.comps /\ st.comps[c].status # "uploaded"

\* ungroup_compilation's status check letting REVIEW through as well
UngroupAllowedAlsoReview(st, c) ==
    /\ c \in DOMAIN st.comps
    /\ st.comps[c].status \in {"pending", "rejected", "review"}

\* ungroup_compilation: the checks that precede the delete
UngroupAllowed(st, c) ==
    /\ c \in DOMAIN st.comps
    /\ st.comps[c].status \in {"pending", "rejected"}

\* ungroup_compilation, start to end without interruption
UngroupCompilationIn(st, c) ==
    IF UngroupAllowed(st, c) THEN DeleteCompilation(st, c) ELSE st

Store == [videos |-> videos, comps |-> comps, next |-> nextComp, made |-> <<>>]

\* the ids a grouping handler gave to the compilations it saved
CreatedIds(st) == [i \in 1..(st.next - nextComp) |-> nextComp + i - 1]

\* a grouping handler that takes the store to st and returns r
Grouped(st, r) ==
    /\ Idle
    /\ st.next <= MaxComps + 1
    /\ videos' = st.videos
    /\ comps' = st.comps
    /\ nextComp' = st.next
    /\ ret' = r
    /\ UNCHANGED <<disk, oracle_calls, txn, files, accounts, rules, uploads,
                   attempts, now, inflight, rjob>>

\* GrouperService.create_compilations (job_create_compilations, cli group)
CreateCompilations(max_compilations, num_clips_per) ==
    LET st == CreateCompilationsIn(Store, max_compilations, num_clips_per)
    IN  Grouped(st, [op |-> "create_compilations",
                     max_compilations |-> max_compilations,
                     created |-> CreatedIds(st)])

\* GrouperService.create_compilation
CreateCompilation(category, num_clips) ==
    Grouped(CreateCompilationIn(Store, category, num_clips), NoRet)

\* the store when a creation that would take st0 to st is cut short after
\* insert_compilation of compilation c and the first `updated` update_video
\* calls of its loop: each call has committed on its own
InterruptedAfter(st0, st, c, updated) ==
    [st EXCEPT !.videos =
        [v \in DOMAIN st.videos |->
            IF \E i \in (updated + 1)..Len(st.comps[c].video_ids) :
                   st.comps[c].video_ids[i] = v
            THEN st0.videos[v]
            ELSE st.videos[v]]]

\* GrouperService.create_compilation (alone or as called by
\* create_compilations) with the process stopped inside its update loop
CreateCompilationInterrupted(category, num_clips, updated) ==
    LET st == CreateCompilationIn(Store, category, num_clips)
    IN  /\ st.next # nextComp
        /\ updated < Len(st.comps[nextComp].video_ids)
        /\ Grouped(InterruptedAfter(Store, st, nextComp, updated),
                   [op |-> "interrupted"])

\* GrouperService.create_mega_compilation
CreateMegaCompilation(compilation_type, num_sources) ==
    Grouped(CreateMegaCompilationIn(Store, compilation_type, num_sources),
            NoRet)

\* GrouperService.ungroup_compilation up to the first statement of
\* delete_compilation; a refused call returns False at once.  The call may
\* come while the renderer works on the very compilation it names.
UngroupCompilation(c) ==
    /\ inflight = <<>> /\ txn = <<>>
    /\ IF rjob = <<>> THEN TRUE ELSE rjob[1].cur = c
    /\ IF UngroupAllowed(Store, c)
       THEN LET pending == UnassignVideos(Store, c)
            IN /\ txn' = <<[compilation_id |-> c, pending |-> pending, pc |-> "updated"]>>
               /\ videos' = VisibleStore(Store, pending).videos
               /\ comps' = VisibleStore(Store, pending).comps
               /\ ret' = NoRet
       ELSE /\ ret' = [op |-> "ungroup_compilation", compilation_id |-> c, ok |-> FALSE]
            /\ UNCHANGED <<videos, comps, txn>>
    /\ UNCHANGED <<nextComp, files, accounts, rules, uploads, attempts, now,
                   inflight, rjob, disk, oracle_calls>>

\* delete_compilation: the DELETE statement, inside the open transaction
DeleteCompilationDelete ==
    /\ txn # <<>>
    /\ txn[1].pc = "updated"
    /\ LET pending == DeleteCompilationRow(txn[1].pending, txn[1].compilation_id)
       IN /\ txn' = <<[txn[1] EXCEPT !.pending = pending, !.pc = "deleted"]>>
          /\ videos' = VisibleStore(Store, pending).videos
          /\ comps' = VisibleStore(Store, pending).comps
    /\ ret' = NoRet
    /\ UNCHANGED <<nextComp, files, accounts, rules, uploads, attempts, now,
                   inflight, rjob, disk, oracle_calls>>

\* _get_connection leaves the with-block: commit; ungroup_compilation returns True
DeleteCompilationCommit ==
    /\ txn # <<>>
    /\ txn[1].pc = "deleted"
    /\ videos' = txn[1].pending.videos
    /\ comps' = txn[1].pending.comps
    /\ txn' = <<>>
    /\ ret' = [op |-> "ungroup_compilation", compilation_id |-> txn[1].compilation_id,
               ok |-> TRUE]
    /\ UNCHANGED <<nextComp, files, accounts, rules, uploads, attempts, now,
                   inflight, rjob, disk, oracle_calls>>

\* the process is interrupted while the transaction is open: nothing of it was
\* committed, and SQLite rolls the open transaction back
DeleteCompilationInterrupt ==
    /\ txn # <<>>
    /\ txn' = <<>>
    /\ ret' = [op |-> "interrupted"]
    /\ UNCHANGED <<videos, comps, nextComp, files, accounts, rules, uploads,
                   attempts, now, inflight, rjob, disk, oracle_calls>>

-----------------------------------------------------------------------------
(* Review: pipeline.py *)

\* Pipeline.approve(compilation_id)
Approve(c) ==
    /\ Idle
    /\ c \in DOMAIN comps
    /\ comps' = IF comps[c].status = "review"
                THEN [comps EXCEPT ![c].status = "approved"]
                ELSE comps
    /\ ret' = NoRet
    /\ UNCHANGED <<disk, oracle_calls, txn, videos, nextComp, files, accounts,
                   rules, uploads, attempts, now, inflight, rjob>>

\* Pipeline.reject(compilation_id, delete_file)
Reject(c, delete_file) ==
    /\ Idle
    /\ c \in DOMAIN comps
    /\ IF comps[c].status \in {"review", "approved"}
       THEN /\ comps' = [comps EXCEPT ![c].status = "rejected"]
            /\ files' = IF delete_file THEN files \ {c} ELSE files
       ELSE UNCHANGED <<comps, files>>
    /\ ret' = NoRet
    /\ UNCHANGED <<disk, oracle_calls, txn, videos, nextComp, accounts, rules,
                   uploads, attempts, now, inflight, rjob>>

-----------------------------------------------------------------------------
(* Rendering: services/stitcher.py, scheduler/jobs.py *)

\* an automatic approval that ignores the auto_approved flag
AutoApproveRenderedUnflagged(cs) ==
    [c \in DOMAIN cs |->
        IF cs[c].status = "review"
        THEN [cs[c] EXCEPT !.status = "approved"]
        ELSE cs[c]]

\* _auto_approve_rendered: every REVIEW compilation flagged auto_approved
AutoApproveRendered(cs) ==
    [c \in DOMAIN cs |->
        IF cs[c].status = "review" /\ cs[c].auto_approved
        THEN [cs[c] EXCEPT !.status = "approved"]
        ELSE cs[c]]

\* render() up to the external ffmpeg work: the compilation row it has written
RenderBegin(cs, c) == [cs EXCEPT ![c].status = "rendering"]

\* job_render_compilations with FFmpeg missing: every render() puts its
\* compilation back to PENDING at once, then _auto_approve_rendered runs
JobRenderNoFfmpeg ==
    /\ Idle
    /\ comps' = AutoApproveRendered(comps)
    /\ ret' = NoRet
    /\ UNCHANGED <<disk, oracle_calls, txn, videos, nextComp, files, accounts,
                   rules, uploads, attempts, now, inflight, rjob>>

\* job_render_compilations: render_pending(limit=2) takes the pending
\* compilations and starts rendering the first: render() marks it RENDERING
\* and reads its clips
JobRenderCompilations ==
    /\ Idle
    /\ LET pending == GetCompilationsByStatus(comps, "pending", RENDER_JOB_LIMIT)
       IN IF pending = <<>>
          THEN /\ comps' = AutoApproveRendered(comps)
               /\ rjob' = <<>>
          ELSE /\ comps' = RenderBegin(comps, Head(pending))
               /\ rjob' = <<[cur |-> Head(pending), todo |-> Tail(pending),
                             snap |-> comps, auto |-> TRUE,
                             clips |-> GetVideosForCompilation(videos, Head(pending))]>>
    /\ ret' = NoRet
    /\ UNCHANGED <<disk, oracle_calls, txn, videos, nextComp, files, accounts,
                   rules, uploads, attempts, now, inflight>>

\* the rest of render() for the compilation being rendered, from the clips it
\* read at its start; ok says whether the clips were processed and concatenated.  The handler then renders its next
\* compilation; after the last one the scheduler's job goes on to
\* _auto_approve_rendered and Pipeline.stitch returns.
RenderEnd(ok) ==
    /\ rjob # <<>>
    /\ rjob[1].cur # NoComp
    /\ LET j == rjob[1]
           c == j.cur
           clips == j.clips
           done == ok /\ clips # <<>>
           row == [j.snap[c] EXCEPT !.status = IF done THEN "review" ELSE "pending"]
           cs1 == [comps EXCEPT ![c] = row]
           vs1 == IF done
                  THEN [v \in DOMAIN videos |->
                          IF v \in Range(clips)
                          THEN [videos[v] EXCEPT !.status = "used"]
                          ELSE videos[v]]
                  ELSE videos
       IN /\ (clips = <<>> => ~ok)
          /\ videos' = vs1
          /\ files' = IF done THEN files \cup {c} ELSE files
          /\ IF j.todo = <<>>
             THEN /\ comps' = cs1
                  /\ rjob' = IF j.auto THEN <<[j EXCEPT !.cur = NoComp]>> ELSE <<>>
             ELSE /\ comps' = [cs1 EXCEPT ![Head(j.todo)] =
                                  [j.snap[Head(j.todo)] EXCEPT !.status = "rendering"]]
                  /\ rjob' = <<[j EXCEPT !.cur = Head(j.todo), !.todo = Tail(j.todo),
                                         !.clips = GetVideosForCompilation(vs1, Head(j.todo))]>>
    /\ ret' = NoRet
    /\ UNCHANGED <<disk, oracle_calls, txn, nextComp, accounts, rules, uploads,
                   attempts, now, inflight>>

\* job_render_compilations after render_pending: _auto_approve_rendered
JobRenderAutoApprove ==
    /\ rjob # <<>>
    /\ rjob[1].cur = NoComp
    /\ comps' = AutoApproveRendered(comps)
    /\ rjob' = <<>>
    /\ ret' = NoRet
    /\ UNCHANGED <<disk, oracle_calls, txn, videos, nextComp, files, accounts,
                   rules, uploads, attempts, now, inflight>>

\* Pipeline.stitch(compilation_id): render() of that compilation, whatever its
\* status, up to the external ffmpeg work
Stitch(c, ffmpeg) ==
    /\ Idle
    /\ c \in DOMAIN comps
    /\ IF ffmpeg
       THEN /\ comps' = RenderBegin(comps, c)
            /\ rjob' = <<[cur |-> c, todo |-> <<>>, snap |-> comps, auto |-> FALSE,
                          clips |-> GetVideosForCompilation(videos, c)]>>
       ELSE /\ comps' = [comps EXCEPT ![c].status = "pending"]
            /\ rjob' = <<>>
    /\ ret' = NoRet
    /\ UNCHANGED <<disk, oracle_calls, txn, videos, nextComp, files, accounts,
                   rules, uploads, attempts, now, inflight>>

-----------------------------------------------------------------------------
(* Routing and the upload queue: services/upload_router.py, scheduler/jobs.py *)

\* UploadRouter.route_compilation(compilation, platforms)
RouteCompilation(c, platforms) ==
    /\ Idle
    /\ c \in DOMAIN comps
    /\ uploads' = RouteCompilationUploads(uploads, c, comps[c], platforms)
    /\ attempts' = [i \in 1..Len(uploads') |->
                      IF i <= Len(uploads) THEN attempts[i] ELSE 0]
    /\ ret' = [op |-> "route_compilation", compilation_id |-> c,
               platforms |-> platforms,
               created |-> SubSeq(uploads', Len(uploads) + 1, Len(uploads'))]
    /\ UNCHANGED <<disk, oracle_calls, txn, videos, comps, nextComp, files,
                   accounts, rules, now, inflight, rjob>>

\* job_route_uploads: route_approved_compilations()
JobRouteUploads ==
    /\ Idle
    /\ uploads' = RouteAll(uploads, GetCompilationsByStatus(comps, "approved", 0))
    /\ attempts' = [i \in 1..Len(uploads') |->
                      IF i <= Len(uploads) THEN attempts[i] ELSE 0]
    /\ ret' = NoRet
    /\ UNCHANGED <<disk, oracle_calls, txn, videos, comps, nextComp, files,
                   accounts, rules, now, inflight, rjob>>

\* the upload job_process_uploads takes: YouTube first, else TikTok
NextJobUpload ==
    IF GetNextUpload("youtube") # NoUpload THEN GetNextUpload("youtube")
    ELSE GetNextUpload("tiktok")

\* job_process_uploads up to the external upload call: get_next_upload,
\* mark_upload_started
JobProcessUploads ==
    /\ Idle
    /\ LET u == NextJobUpload
       IN IF u = NoUpload
          THEN UNCHANGED <<uploads, attempts, inflight>>
          ELSE /\ uploads' = MarkUploadStarted(uploads, u)
               /\ attempts' = [attempts EXCEPT ![u] = @ + 1]
               /\ inflight' = <<[upload |-> u,
                                 account |-> uploads[u].account_id,
                                 compilation_id |-> uploads[u].compilation_id,
                                 compilation |-> comps[uploads[u].compilation_id]]>>
    /\ ret' = NoRet
    /\ UNCHANGED <<disk, oracle_calls, txn, videos, comps, nextComp, files,
                   accounts, rules, now, rjob>>

\* the injected upload failures so far (the uploads' retry counts add up to it)
RECURSIVE TotalRetries(_)
TotalRetries(ups) ==
    IF ups = <<>> THEN 0 ELSE Head(ups).retry_count + TotalRetries(Tail(ups))

\* _process_youtube_upload / _process_tiktok_upload after the uploader returned:
\* result is "video_id" (published), "none" (no id returned) or "raise"
UploadReturns(result) ==
    /\ inflight # <<>>
    /\ LET f == inflight[1]
           u == f.upload
           file_ok == f.compilation_id \in files
       IN /\ (result = "video_id" => file_ok)
          /\ (result = "raise" => file_ok)
          /\ (file_ok /\ result # "video_id" => TotalRetries(uploads) < MaxFailures)
          /\ IF result = "video_id"
             THEN /\ uploads' = MarkUploadSuccess(uploads, u)
                  /\ accounts' = IncrementUploadCount(accounts, f.account)
                  /\ comps' = IF uploads[u].platform = "youtube"
                              THEN [comps EXCEPT ![f.compilation_id] =
                                      [f.compilation EXCEPT !.status = "uploaded"]]
                              ELSE comps
             ELSE /\ uploads' = MarkUploadFailed(uploads, u)
                  /\ UNCHANGED <<accounts, comps>>
    /\ inflight' = <<>>
    /\ ret' = NoRet
    /\ UNCHANGED <<disk, oracle_calls, txn, videos, nextComp, files, rules,
                   attempts, now, rjob>>

\* job_process_uploads stopped (process killed) while the uploader is at work:
\* mark_upload_started has committed, neither mark_upload_success nor
\* mark_upload_failed runs
JobProcessUploadsInterrupted ==
    /\ inflight # <<>>
    /\ inflight' = <<>>
    /\ ret' = [op |-> "interrupted"]
    /\ UNCHANGED <<disk, oracle_calls, txn, videos, comps, nextComp, files,
                   accounts, rules, uploads, attempts, now, rjob>>

\* job_retry_failed_uploads: retry_failed_uploads(max_retries=3)
JobRetryFailedUploads ==
    /\ Idle
    /\ uploads' = RetryFailedUploads(uploads, MAX_RETRIES)
    /\ ret' = NoRet
    /\ UNCHANGED <<disk, oracle_calls, txn, videos, comps, nextComp, files,
                   accounts, rules, attempts, now, inflight, rjob>>

\* job_reset_daily_limits: reset_daily_upload_counts
JobResetDailyLimits ==
    /\ Idle
    /\ accounts' = [a \in DOMAIN accounts |-> [accounts[a] EXCEPT !.uploads_today = 0]]
    /\ ret' = NoRet
    /\ UNCHANGED <<disk, oracle_calls, txn, videos, comps, nextComp, files,
                   rules, uploads, attempts, now, inflight, rjob>>

\* AccountManager.update_account(account_id, daily_limit=...)
UpdateAccount(a, daily_limit) ==
    /\ Idle
    /\ a \in DOMAIN accounts
    /\ accounts' = [accounts EXCEPT ![a].daily_upload_limit = daily_limit]
    /\ ret' = NoRet
    /\ UNCHANGED <<disk, oracle_calls, txn, videos, comps, nextComp, files,
                   rules, uploads, attempts, now, inflight, rjob>>

\* AccountManager.deactivate_account / activate_account
SetActive(a, active) ==
    /\ Idle
    /\ a \in DOMAIN accounts
    /\ accounts' = [accounts EXCEPT ![a].is_active = active]
    /\ ret' = NoRet
    /\ UNCHANGED <<disk, oracle_calls, txn, videos, comps, nextComp, files,
                   rules, uploads, attempts, now, inflight, rjob>>

\* time passes
Tick ==
    /\ Idle
    /\ now + TickMinutes <= MaxTime
    /\ now' = now + TickMinutes
    /\ ret' = NoRet
    /\ UNCHANGED <<disk, oracle_calls, txn, videos, comps, nextComp, files,
                   accounts, rules, uploads, attempts, inflight, rjob>>

-----------------------------------------------------------------------------
(* The publishing pipeline from grouped compilations on *)

Video(category, status, c, order) ==
    [status |-> status, compilation_id |-> c, clip_order |-> order,
     category |-> category, subcategory |-> "", category_confidence |-> 80,
     compilation_score |-> 0, visual_independence |-> 0, likes |-> 0, shares |-> 0,
     is_source_compilation |-> FALSE, compilation_type |-> "", duration |-> 0,
     source_score |-> 0]

Compilation(category, video_ids, confidence, auto) ==
    [category |-> category, status |-> "pending", video_ids |-> video_ids,
     confidence_score |-> confidence, auto_approved |-> auto]

Account(platform, strategy, limit) ==
    [platform |-> platform, content_strategy |-> strategy,
     has_credentials |-> TRUE, is_active |-> TRUE,
     daily_upload_limit |-> limit, uploads_today |-> 0, last_upload_at |-> NoTime]

RoutingRule(a, category, min_confidence, priority) ==
    [account_id |-> a, category |-> category,
     min_confidence |-> min_confidence, priority |-> priority]

InitRoute ==
    /\ videos = <<Video("comedy", "grouped", 1, 0), Video("comedy", "grouped", 1, 1),
                  Video("fails", "grouped", 2, 0), Video("fails", "grouped", 2, 1)>>
    /\ comps = <<Compilation("comedy", <<1, 2>>, 50, FALSE),
                 Compilation("fails", <<3, 4>>, 80, TRUE)>>
    /\ nextComp = 3
    /\ files = {}
    /\ accounts = <<Account("youtube", "comedy", 2),
                    Account("youtube", "mixed", 1),
                    Account("tiktok", "mixed", 1)>>
    /\ rules = <<RoutingRule(1, "fails", 70, 2)>>
    /\ uploads = <<>>
    /\ attempts = <<>>
    /\ now = 0
    /\ inflight = <<>>
    /\ rjob = <<>>
    /\ ret = NoRet
    /\ disk = {}
    /\ oracle_calls = [v \in DOMAIN videos |-> 0]
    /\ txn = <<>>

NextRoute ==
    \/ \E c \in DOMAIN comps : Approve(c)
    \/ \E c \in DOMAIN comps, d \in BOOLEAN : Reject(c, d)
    \/ JobRenderNoFfmpeg
    \/ JobRenderCompilations
    \/ \E ok \in BOOLEAN : RenderEnd(ok)
    \/ JobRenderAutoApprove
    \/ JobRouteUploads
    \/ JobProcessUploads
    \/ \E r \in {"video_id", "none", "raise"} : UploadReturns(r)
    \/ JobRetryFailedUploads
    \/ JobResetDailyLimits
    \/ Tick

SpecRoute == InitRoute /\ [][NextRoute]_vars

(* The same pipeline with route_compilation also called directly *)

NextRouter ==
    \/ \E c \in DOMAIN comps : Approve(c)
    \/ \E c \in DOMAIN comps, d \in BOOLEAN : Reject(c, d)
    \/ JobRenderCompilations
    \/ \E ok \in BOOLEAN : RenderEnd(ok)
    \/ JobRenderAutoApprove
    \/ \E c \in DOMAIN comps : RouteCompilation(c, DefaultPlatforms)
    \/ JobRouteUploads
    \/ JobProcessUploads
    \/ \E r \in {"video_id", "none", "raise"} : UploadReturns(r)
    \/ JobRetryFailedUploads
    \/ Tick

SpecRouter == InitRoute /\ [][NextRouter]_vars

(* The upload side alone, from both compilations rendered and approved, with *)
(* upload processing interruptible; the scheduler keeps running its routing, *)
(* upload and retry jobs, and an upload call that is not interrupted returns *)

InitResume ==
    /\ videos = <<Video("comedy", "used", 1, 0), Video("comedy", "used", 1, 1),
                  Video("fails", "used", 2, 0), Video("fails", "used", 2, 1)>>
    /\ comps = <<[Compilation("comedy", <<1, 2>>, 50, FALSE) EXCEPT !.status = "approved"],
                 [Compilation("fails", <<3, 4>>, 80, TRUE) EXCEPT !.status = "approved"]>>
    /\ nextComp = 3
    /\ files = {1, 2}
    /\ accounts = <<Account("youtube", "comedy", 2),
                    Account("youtube", "mixed", 1),
                    Account("tiktok", "mixed", 1)>>
    /\ rules = <<RoutingRule(1, "fails", 70, 2)>>
    /\ uploads = <<>>
    /\ attempts = <<>>
    /\ now = 0
    /\ inflight = <<>>
    /\ rjob = <<>>
    /\ ret = NoRet
    /\ disk = {}
    /\ oracle_calls = [v \in DOMAIN videos |-> 0]
    /\ txn = <<>>

NextResume ==
    \/ JobRouteUploads
    \/ JobProcessUploads
    \/ \E r \in {"video_id", "none", "raise"} : UploadReturns(r)
    \/ JobProcessUploadsInterrupted
    \/ JobRetryFailedUploads
    \/ Tick

\* job_route_uploads would create an upload
RoutingDue ==
    Idle /\ RouteAll(uploads, GetCompilationsByStatus(comps, "approved", 0)) # uploads

\* job_process_uploads would start an upload
UploadDue == Idle /\ NextJobUpload # NoUpload

\* Weak fairness of the four steps.  For job_route_uploads and
\* job_process_uploads it is written out, WF_vars(A) being
\* []<>~(ENABLED <<A>>_vars) \/ []<><<A>>_vars, with the enabling condition
\* stated as RoutingDue and UploadDue.
SpecResume ==
    /\ InitResume
    /\ [][NextResume]_vars
    /\ ([]<>~RoutingDue \/ []<><<JobRouteUploads>>_vars)
    /\ ([]<>~UploadDue \/ []<><<JobProcessUploads>>_vars)
    /\ WF_vars(\E r \in {"video_id", "none", "raise"} : UploadReturns(r))
    /\ WF_vars(JobRetryFailedUploads)

(* The upload side alone with a second TikTok account: both compilations  *)
(* rendered and approved, one YouTube account and two TikTok accounts of   *)
(* the "mixed" strategy, no routing rule                                   *)

InitPublish ==
    /\ videos = <<Video("comedy", "used", 1, 0), Video("comedy", "used", 1, 1),
                  Video("fails", "used", 2, 0), Video("fails", "used", 2, 1)>>
    /\ comps = <<[Compilation("comedy", <<1, 2>>, 50, FALSE) EXCEPT !.status = "approved"],
                 [Compilation("fails", <<3, 4>>, 80, TRUE) EXCEPT !.status = "approved"]>>
    /\ nextComp = 3
    /\ files = {1, 2}
    /\ accounts = <<Account("youtube", "mixed", MaxLimit),
                    Account("tiktok", "mixed", MaxLimit),
                    Account("tiktok", "mixed", MaxLimit)>>
    /\ rules = <<>>
    /\ uploads = <<>>
    /\ attempts = <<>>
    /\ now = 0
    /\ inflight = <<>>
    /\ rjob = <<>>
    /\ ret = NoRet
    /\ disk = {}
    /\ oracle_calls = [v \in DOMAIN videos |-> 0]
    /\ txn = <<>>

NextPublish ==
    \/ JobRouteUploads
    \/ JobProcessUploads
    \/ \E r \in {"video_id", "none", "raise"} : UploadReturns(r)
    \/ JobRetryFailedUploads
    \/ Tick

SpecPublish == InitPublish /\ [][NextPublish]_vars

(* The same pipeline with the operator editing the accounts' daily limits *)

NextAccounts ==
    \/ \E c \in DOMAIN comps : Approve(c)
    \/ JobRenderCompilations
    \/ \E ok \in BOOLEAN : RenderEnd(ok)
    \/ JobRenderAutoApprove
    \/ JobRouteUploads
    \/ JobProcessUploads
    \/ \E r \in {"video_id", "none", "raise"} : UploadReturns(r)
    \/ JobRetryFailedUploads
    \/ JobResetDailyLimits
    \/ \E a \in DOMAIN accounts, l \in 1..MaxLimit : UpdateAccount(a, l)
    \/ Tick

SpecAccounts == InitRoute /\ [][NextAccounts]_vars

(* A long upload queue: QueuedComps compilations approved and routed by     *)
(* job_route_uploads (newest first, each to the first YouTube account and   *)
(* to the TikTok account), one more compilation still in review             *)

InitQueue ==
    /\ videos = [v \in 1..(QueuedComps + 1) |-> Video("comedy", "used", v, 0)]
    /\ comps = [c \in 1..(QueuedComps + 1) |->
                  [Compilation("comedy", <<c>>, 50, FALSE) EXCEPT
                      !.status = IF c <= QueuedComps THEN "approved" ELSE "review"]]
    /\ nextComp = QueuedComps + 2
    /\ files = 1..(QueuedComps + 1)
    /\ accounts = <<Account("youtube", "mixed", 1),
                    Account("youtube", "mixed", 1),
                    Account("tiktok", "mixed", 1)>>
    /\ rules = <<>>
    /\ uploads = [i \in 1..(2 * QueuedComps) |->
                    IF i % 2 = 1
                    THEN NewUpload(QueuedComps - (i \div 2), 1, "youtube")
                    ELSE NewUpload(QueuedComps + 1 - (i \div 2), 3, "tiktok")]
    /\ attempts = [i \in 1..(2 * QueuedComps) |-> 0]
    /\ now = 0
    /\ inflight = <<>>
    /\ rjob = <<>>
    /\ ret = NoRet
    /\ disk = {}
    /\ oracle_calls = [v \in DOMAIN videos |-> 0]
    /\ txn = <<>>

NextQueue ==
    \/ \E c \in DOMAIN comps : Approve(c)
    \/ JobRouteUploads
    \/ JobProcessUploads
    \/ UploadReturns("video_id")
    \/ JobResetDailyLimits
    \/ \E a \in DOMAIN accounts, b \in BOOLEAN : SetActive(a, b)
    \/ Tick

SpecQueue == InitQueue /\ [][NextQueue]_vars

(* Routing alone over operator-made accounts and rules: two YouTube accounts *)
(* of any strategy, each with a rule for "fails", and one TikTok account; an *)
(* account that has uploaded today did so for compilation 3                  *)

InitRules ==
    \E s1 \in {"fails", "comedy", "mixed"}, s2 \in {"comedy", "mixed"},
       l1 \in {1, BigLimit},
       t1 \in {0, 1}, t2 \in {0, 1}, t3 \in {0, 1},
       credentials \in BOOLEAN, active \in BOOLEAN,
       m1 \in {70, 90}, p1 \in {1, 2} :
        LET today == <<t1, t2, t3>>
            Used(a, platform, strategy, limit) ==
                [Account(platform, strategy, limit) EXCEPT
                    !.uploads_today = today[a],
                    !.last_upload_at = IF today[a] = 0 THEN NoTime ELSE 0]
            done == SetToSeqAsc({a \in 1..3 : today[a] > 0})
        IN  /\ videos = <<Video("comedy", "used", 1, 0), Video("fails", "used", 2, 0),
                          Video("comedy", "used", 3, 0)>>
            /\ comps = <<[Compilation("comedy", <<1>>, 50, FALSE) EXCEPT !.status = "approved"],
                         [Compilation("fails", <<2>>, 80, TRUE) EXCEPT !.status = "approved"],
                         [Compilation("comedy", <<3>>, 80, TRUE) EXCEPT !.status = "uploaded"]>>
            /\ nextComp = 4
            /\ files = {1, 2, 3}
            /\ accounts = <<[Used(1, "youtube", s1, l1) EXCEPT !.has_credentials = credentials],
                            [Used(2, "youtube", s2, MaxLimit) EXCEPT !.is_active = active],
                            Used(3, "tiktok", "mixed", 1)>>
            /\ rules = <<RoutingRule(1, "fails", m1, p1), RoutingRule(2, "fails", 70, 2)>>
            /\ uploads = [i \in 1..Len(done) |->
                            [NewUpload(3, done[i], accounts[done[i]].platform)
                                EXCEPT !.status = "success"]]
            /\ attempts = [i \in 1..Len(done) |-> 1]
            /\ now = 0
            /\ inflight = <<>>
            /\ rjob = <<>>
            /\ ret = NoRet
            /\ disk = {}
            /\ oracle_calls = [v \in DOMAIN videos |-> 0]
            /\ txn = <<>>

NextRules ==
    \/ \E c \in {1, 2}, platforms \in {DefaultPlatforms, <<"tiktok">>} :
          RouteCompilation(c, platforms)
    \/ JobRouteUploads

SpecRules == InitRules /\ [][NextRules]_vars

-----------------------------------------------------------------------------
(* Grouping, rendering and review over a pool of classified candidates *)

Candidate(subcategory, likes, shares, score, visual) ==
    [status |-> "classified", compilation_id |-> NoComp, clip_order |-> 0,
     category |-> "fails", subcategory |-> subcategory, category_confidence |-> 80,
     compilation_score |-> score, visual_independence |-> visual,
     likes |-> likes, shares |-> shares,
     is_source_compilation |-> FALSE, compilation_type |-> "", duration |-> 0,
     source_score |-> 0]

SourceCompilation(compilation_type, source_score) ==
    [status |-> "downloaded", compilation_id |-> NoComp, clip_order |-> 0,
     category |-> "", subcategory |-> "", category_confidence |-> 0,
     compilation_score |-> 80, visual_independence |-> 0, likes |-> 0, shares |-> 0,
     is_source_compilation |-> TRUE, compilation_type |-> compilation_type,
     duration |-> 60, source_score |-> source_score]

InitGroup ==
    /\ \E s1 \in {50, 80} :
         videos = <<Candidate("physical", 10, 0, s1, s1),
                    Candidate("physical", 20, 9, 80, 80),
                    Candidate("physical", 30, 0, 0, 0),
                    Candidate("physical", 40, 0, 70, 90),
                    Candidate("physical", 50, 1, 80, 80),
                    Candidate("skill", 60, 0, 90, 75),
                    SourceCompilation("fails", 3),
                    SourceCompilation("fails", 5),
                    SourceCompilation("", 4)>>
    /\ comps = <<>>
    /\ nextComp = 1
    /\ files = {}
    /\ accounts = <<>>
    /\ rules = <<>>
    /\ uploads = <<>>
    /\ attempts = <<>>
    /\ now = 0
    /\ inflight = <<>>
    /\ rjob = <<>>
    /\ ret = NoRet
    /\ disk = {}
    /\ oracle_calls = [v \in DOMAIN videos |-> 0]
    /\ txn = <<>>

NextGroup ==
    \/ \E m \in 1..2, n \in {0, MIN_CLIPS} : CreateCompilations(m, n)
    \/ \E cat \in Range(CategoryNames), n \in {0, MIN_CLIPS + 1} : CreateCompilation(cat, n)
    \/ \E t \in {"", "fails"}, n \in {0, 2} : CreateMegaCompilation(t, n)
    \/ \E c \in 1..MaxComps : UngroupCompilation(c)
    \/ DeleteCompilationDelete
    \/ DeleteCompilationCommit
    \/ DeleteCompilationInterrupt
    \/ \E c \in DOMAIN comps, f \in BOOLEAN : Stitch(c, f)
    \/ JobRenderCompilations
    \/ \E ok \in BOOLEAN : RenderEnd(ok)
    \/ JobRenderAutoApprove
    \/ \E c \in DOMAIN comps : Approve(c)
    \/ \E c \in DOMAIN comps : Reject(c, TRUE)

SpecGroup == InitGroup /\ [][NextGroup]_vars

(* Grouping alone over the same pool, create_mega_compilation called with *)
(* any number of sources                                                  *)

NextMega ==
    \/ \E t \in {"", "fails"}, n \in 0..3 : CreateMegaCompilation(t, n)
    \/ \E m \in 1..2 : CreateCompilations(m, 0)
    \/ \E c \in 1..MaxComps : UngroupCompilation(c)
    \/ DeleteCompilationDelete
    \/ DeleteCompilationCommit
    \/ DeleteCompilationInterrupt

SpecMega == InitGroup /\ [][NextMega]_vars

-----------------------------------------------------------------------------
(* Grouping alone over one partition: five classified fails/physical clips, *)
(* the first two sharing their scores and all five their classification     *)
(* confidence                                                               *)

ClassifiedClip(confidence, likes, score, visual) ==
    [Candidate("physical", likes, 0, score, visual)
        EXCEPT !.category_confidence = confidence]

ClipScores == {<<80, 80>>, <<80, 60>>, <<60, 80>>, <<50, 50>>, <<0, 0>>}

InitCluster ==
    /\ \E confidence \in {50, 80}, p \in ClipScores :
         videos = <<ClassifiedClip(confidence, 10, p[1], p[2]),
                    ClassifiedClip(confidence, 20, p[1], p[2]),
                    ClassifiedClip(confidence, 30, 80, 80),
                    ClassifiedClip(confidence, 40, 80, 80),
                    ClassifiedClip(confidence, 50, 80, 80)>>
    /\ comps = <<>>
    /\ nextComp = 1
    /\ files = {}
    /\ accounts = <<>>
    /\ rules = <<>>
    /\ uploads = <<>>
    /\ attempts = <<>>
    /\ now = 0
    /\ inflight = <<>>
    /\ rjob = <<>>
    /\ ret = NoRet
    /\ disk = {}
    /\ oracle_calls = [v \in DOMAIN videos |-> 0]
    /\ txn = <<>>

NextCluster ==
    \/ \E m \in 1..2, n \in {0, MIN_CLIPS} : CreateCompilations(m, n)
    \/ \E cat \in Range(CategoryNames) : CreateCompilation(cat, 0)
    \/ \E cat \in Range(CategoryNames), updated \in {0, 2} :
          CreateCompilationInterrupted(cat, 0, updated)
    \/ \E c \in 1..MaxComps : UngroupCompilation(c)
    \/ DeleteCompilationDelete
    \/ DeleteCompilationCommit
    \/ DeleteCompilationInterrupt

SpecCluster == InitCluster /\ [][NextCluster]_vars

(* The grouping job and the render job of the background scheduler running *)
(* in two threads over the same partition: every insert_compilation and    *)
(* update_video call of the grouping job commits on its own, and the       *)
(* render job may run between any two of them                              *)

\* the compilations whose assignment loop has not yet reached every item
Assigning ==
    {c \in DOMAIN comps :
        \E i \in 1..Len(comps[c].video_ids) :
            videos[comps[c].video_ids[i]].compilation_id # c}

\* job_create_compilations, create_compilations(max_compilations=2), up to the
\* insert_compilation of the compilation it creates
JobCreateCompilationsInsert ==
    /\ inflight = <<>> /\ txn = <<>>
    /\ Assigning = {}
    /\ LET st == CreateCompilationsIn(Store, 2, 0)
       IN /\ st.next = nextComp + 1
          /\ st.next <= MaxComps + 1
          /\ comps' = st.comps
          /\ nextComp' = st.next
    /\ ret' = NoRet
    /\ UNCHANGED <<disk, oracle_calls, txn, videos, files, accounts, rules,
                   uploads, attempts, now, inflight, rjob>>

\* the next turn of the job's assignment loop: one update_video call
JobCreateCompilationsUpdateVideo ==
    /\ Assigning # {}
    /\ LET c == CHOOSE x \in Assigning : TRUE
           ids == comps[c].video_ids
           order == CHOOSE i \in 1..Len(ids) :
                       /\ videos[ids[i]].compilation_id # c
                       /\ \A k \in 1..(i - 1) : videos[ids[k]].compilation_id = c
       IN videos' = [videos EXCEPT ![ids[order]] =
                        [@ EXCEPT !.compilation_id = c,
                                  !.clip_order = order - 1,
                                  !.status = "grouped"]]
    /\ ret' = NoRet
    /\ UNCHANGED <<disk, oracle_calls, txn, comps, nextComp, files, accounts,
                   rules, uploads, attempts, now, inflight, rjob>>

NextInterleave ==
    \/ JobCreateCompilationsInsert
    \/ JobCreateCompilationsUpdateVideo
    \/ JobRenderCompilations
    \/ \E ok \in BOOLEAN : RenderEnd(ok)
    \/ JobRenderAutoApprove

SpecInterleave == InitCluster /\ [][NextInterleave]_vars

-----------------------------------------------------------------------------
(* Grouping alone over one partition holding more clips than a compilation  *)
(* takes: fails/physical clips with distinct likes, the least liked one     *)
(* possibly much shared, the second of any scores and possibly not yet      *)
(* classified                                                               *)

InitSelect ==
    /\ \E n \in {MIN_CLIPS + 1, MAX_CLIPS + 1}, shares \in {0, 40},
          p \in {<<80, 80>>, <<0, 0>>, <<0, 80>>, <<80, 0>>, <<50, 90>>},
          status \in {"classified", "downloaded"} :
         videos = [i \in 1..n |->
                     IF i = 1 THEN Candidate("physical", 10, shares, 80, 80)
                     ELSE IF i = 2
                     THEN [Candidate("physical", 20, 0, p[1], p[2])
                              EXCEPT !.status = status]
                     ELSE Candidate("physical", 10 * i, 0, 80, 80)]
    /\ comps = <<>>
    /\ nextComp = 1
    /\ files = {}
    /\ accounts = <<>>
    /\ rules = <<>>
    /\ uploads = <<>>
    /\ attempts = <<>>
    /\ now = 0
    /\ inflight = <<>>
    /\ rjob = <<>>
    /\ ret = NoRet
    /\ disk = {}
    /\ oracle_calls = [v \in DOMAIN videos |-> 0]
    /\ txn = <<>>

NextSelect ==
    \/ \E m \in 1..2, n \in {0, MIN_CLIPS - 2, MIN_CLIPS, MAX_CLIPS + 4} :
          CreateCompilations(m, n)
    \/ \E cat \in Range(CategoryNames), n \in {0, MIN_CLIPS - 2, MAX_CLIPS + 4} :
          CreateCompilation(cat, n)
    \/ \E c \in 1..MaxComps : UngroupCompilation(c)
    \/ DeleteCompilationDelete
    \/ DeleteCompilationCommit
    \/ DeleteCompilationInterrupt

SpecSelect == InitSelect /\ [][NextSelect]_vars

-----------------------------------------------------------------------------
(* Intake: services/downloader.py and services/classifier.py *)

\* ClassifierService.ACCEPTED_CATEGORIES
ACCEPTED_CATEGORIES == {"fails", "comedy"}

\* ClassifierService.SUBCATEGORIES
SUBCATEGORIES(category) ==
    IF category = "fails" THEN <<"physical", "skill", "social">>
    ELSE <<"physical", "reaction", "animal">>

\* the descriptions a pre-filter pattern is found in ("follow\s*for\s*more"
\* among the spam patterns, "wait for it" among the low-effort phrases)
PreFilterMatches == {"follow for more fails", "wait for it"}

\* _pre_filter: should_reject
PreFilter(video) == video.description \in PreFilterMatches

\* str.lower().strip() over the strings the oracle answers with
LowerStrip(s) == IF s = " Fails" THEN "fails" ELSE s

\* max(0.0, min(1.0, x))
Clamp(x) == IF x < 0 THEN 0 ELSE IF x > 100 THEN 100 ELSE x

\* JSON values of a response object's fields
JsonNumber(v) == [t |-> "number", v |-> v, s |-> ""]
JsonString(s) == [t |-> "string", v |-> 0, s |-> s]
JsonNull == [t |-> "null", v |-> 0, s |-> ""]
JsonMissing == [t |-> "missing", v |-> 0, s |-> ""]

\* a response whose content is a JSON object with these five fields
JsonObject(category, subcategory, confidence, compilation_score, visual_independence) ==
    [kind |-> "object", category |-> category, subcategory |-> subcategory,
     confidence |-> confidence, compilation_score |-> compilation_score,
     visual_independence |-> visual_independence]

\* a response that is no JSON object: the call raised ("raises"), the content
\* is None ("none"), is text that is not JSON, the empty string included
\* ("text"), or is JSON of another shape such as an array ("array")
NoObject(kind) ==
    [kind |-> kind, category |-> JsonMissing, subcategory |-> JsonMissing,
     confidence |-> JsonMissing, compilation_score |-> JsonMissing,
     visual_independence |-> JsonMissing]

\* what the chat completion may answer
OracleResponses ==
    <<NoObject("raises"),
      NoObject("none"),
      NoObject("text"),
      NoObject("array"),
      JsonObject(JsonString("fails"), JsonString("skill"), JsonNumber(80),
                 JsonNumber(70), JsonNumber(70)),
      JsonObject(JsonString("reject"), JsonString("none"), JsonNumber(90),
                 JsonNumber(10), JsonNumber(10)),
      JsonObject(JsonString("fails"), JsonString("physical"), JsonNumber(20),
                 JsonNumber(70), JsonNumber(70)),
      JsonObject(JsonString("fails"), JsonString("physical"), JsonNumber(80),
                 JsonNumber(50), JsonNumber(70)),
      JsonObject(JsonString("fails"), JsonString("physical"), JsonNumber(80),
                 JsonNumber(70), JsonNumber(50)),
      JsonObject(JsonString("dance"), JsonString("none"), JsonNumber(80),
                 JsonNumber(70), JsonNumber(70)),
      JsonObject(JsonNumber(1), JsonString("physical"), JsonNumber(80),
                 JsonNumber(70), JsonNumber(70)),
      JsonObject(JsonString("fails"), JsonString("physical"),
                 JsonString("high"), JsonNumber(70), JsonNumber(70)),
      JsonObject(JsonMissing, JsonMissing, JsonMissing, JsonMissing,
                 JsonMissing),
      JsonObject(JsonString(" Fails"), JsonString("none"), JsonNumber(150),
                 JsonNumber(70), JsonNumber(70)),
      JsonObject(JsonString("comedy"), JsonString("animal"), JsonNumber(30),
                 JsonNumber(60), JsonNumber(60)),
      JsonObject(JsonString("fails"), JsonNull, JsonNumber(80),
                 JsonNumber(70), JsonNumber(70)),
      JsonObject(JsonString("fails"), JsonString("physical"), JsonNumber(80),
                 JsonNull, JsonNumber(70))>>

\* the dict classify returns for a rejection of its own making
RejectResult(confidence) ==
    [raised |-> FALSE, category |-> "reject", subcategory |-> "",
     confidence |-> confidence, compilation_score |-> 0,
     visual_independence |-> 0]

\* an exception leaving the call
Raised ==
    [raised |-> TRUE, category |-> "", subcategory |-> "", confidence |-> 0,
     compilation_score |-> 0, visual_independence |-> 0]

\* data.get(key, "").lower() raises AttributeError unless the value is a string
HasLower(field) == field.t \in {"string", "missing"}

\* float(data.get(key, 0)) raises TypeError on null, ValueError on a word
IsFloat(field) == field.t \in {"number", "missing"}

\* the body of _parse_response for an object whose category and subcategory
\* have a lower(): a TypeError or ValueError of float() is caught there
ParseObject(response) ==
    IF \/ ~IsFloat(response.confidence)
       \/ ~IsFloat(response.compilation_score)
       \/ ~IsFloat(response.visual_independence)
    THEN RejectResult(PARSE_ERROR_CONFIDENCE)
    ELSE LET category == LowerStrip(response.category.s)
             subcategory == LowerStrip(response.subcategory.s)
             valid == category \in ACCEPTED_CATEGORIES \/ category = "reject"
         IN [raised |-> FALSE,
             category |-> IF valid THEN category ELSE "reject",
             subcategory |->
                 IF ~valid \/ category = "reject" THEN ""
                 ELSE IF subcategory \in Range(SUBCATEGORIES(category))
                 THEN subcategory
                 ELSE SUBCATEGORIES(category)[1],
             confidence |-> Clamp(response.confidence.v),
             compilation_score |-> Clamp(response.compilation_score.v),
             visual_independence |-> Clamp(response.visual_independence.v)]

\* _parse_response: it catches json.JSONDecodeError, KeyError, TypeError and
\* ValueError; the AttributeError of None.strip(), of get on a value that is
\* no dict and of lower() on a value that is no string leaves it
ParseResponse(response) ==
    IF response.kind \in {"none", "array"} THEN Raised
    ELSE IF response.kind = "text" THEN RejectResult(PARSE_ERROR_CONFIDENCE)
    ELSE IF ~HasLower(response.category) \/ ~HasLower(response.subcategory)
    THEN Raised
    ELSE ParseObject(response)

\* classify without its pre-filter stage
ClassifyWithoutPreFilter(video, response) ==
    [invoked |-> TRUE,
     result |-> IF response.kind = "raises" THEN Raised
                ELSE ParseResponse(response)]

\* classify: the result, and whether the chat completion was asked for
Classify(video, response) ==
    IF PreFilter(video)
    THEN [invoked |-> FALSE, result |-> RejectResult(PRE_FILTER_CONFIDENCE)]
    ELSE [invoked |-> TRUE,
          result |-> IF response.kind = "raises" THEN Raised
                     ELSE ParseResponse(response)]

\* classify_and_update treating a low visual independence as acceptable
ClassifyAndUpdateInIgnoringVisual(video, outcome, min_confidence, min_compilation_score, min_visual_independence) ==
    IF outcome.result.raised
    THEN [video EXCEPT !.error = "classification failed", !.status = "failed"]
    ELSE [video EXCEPT
            !.category = outcome.result.category,
            !.subcategory = outcome.result.subcategory,
            !.category_confidence = outcome.result.confidence,
            !.compilation_score = outcome.result.compilation_score,
            !.visual_independence = outcome.result.visual_independence,
            !.error = "",
            !.status =
                IF \/ outcome.result.category = "reject"
                   \/ outcome.result.confidence < min_confidence
                   \/ outcome.result.compilation_score < min_compilation_score
                THEN "skipped" ELSE "classified"]

\* classify_and_update: the row it writes for the outcome of classify
ClassifyAndUpdateIn(video, outcome, min_confidence, min_compilation_score, min_visual_independence) ==
    IF outcome.result.raised
    THEN [video EXCEPT !.error = "classification failed", !.status = "failed"]
    ELSE [video EXCEPT
            !.category = outcome.result.category,
            !.subcategory = outcome.result.subcategory,
            !.category_confidence = outcome.result.confidence,
            !.compilation_score = outcome.result.compilation_score,
            !.visual_independence = outcome.result.visual_independence,
            !.error = "",
            !.status =
                IF \/ outcome.result.category = "reject"
                   \/ outcome.result.confidence < min_confidence
                   \/ outcome.result.compilation_score < min_compilation_score
                   \/ outcome.result.visual_independence
                          < min_visual_independence
                THEN "skipped" ELSE "classified"]

\* DownloaderService.download: the row it writes.  present tells whether the
\* output file exists already, outcome what yt-dlp does otherwise
DownloadIn(video, present, outcome) ==
    IF present THEN [video EXCEPT !.status = "downloaded"]
    ELSE IF outcome = "ok"
    THEN [video EXCEPT !.status = "downloaded", !.error = ""]
    ELSE [video EXCEPT
            !.retry_count = @ + 1,
            !.error = "download failed",
            !.status = IF video.retry_count + 1 >= MAX_DOWNLOAD_RETRIES
                       THEN "failed" ELSE @]

\* download_batch over the rows selected, each with its own outcome
DownloadBatch(op, selected, outcome) ==
    LET done == {v \in selected : v \in disk \/ outcome[v] = "ok"}
    IN  /\ Idle
        /\ videos' = [v \in DOMAIN videos |->
                        IF v \in selected
                        THEN DownloadIn(videos[v], v \in disk, outcome[v])
                        ELSE videos[v]]
        /\ disk' = disk \cup done
        /\ ret' = [op |-> op, success |-> Cardinality(done),
                   fail |-> Cardinality(selected \ done)]
        /\ UNCHANGED <<oracle_calls, txn, comps, nextComp, files, accounts,
                       rules, uploads, attempts, now, inflight, rjob>>

\* get_videos_by_status(DISCOVERED)
DiscoveredVideos == {v \in DOMAIN videos : videos[v].status = "discovered"}

\* DownloaderService.download_discovered
DownloadDiscovered(outcome) ==
    DownloadBatch("download_discovered", DiscoveredVideos, outcome)

\* retry_failed: a failed row that has not used up its download retries
Retryable(video) ==
    video.status = "failed" /\ video.retry_count < MAX_DOWNLOAD_RETRIES

\* the rows retry_failed downloads again
RetryableVideos == {v \in DOMAIN videos : Retryable(videos[v])}

\* DownloaderService.retry_failed
RetryFailed(outcome) == DownloadBatch("retry_failed", RetryableVideos, outcome)

\* ClassifierService.classify_and_update with its default thresholds, on a
\* downloaded row as classify_downloaded / classify_batch call it, one call
\* and one committed update per row.  response is what the chat completion
\* answers if it is asked
ClassifyAndUpdate(v, response) ==
    LET outcome == Classify(videos[v], OracleResponses[response])
        row == ClassifyAndUpdateIn(videos[v], outcome,
                                   MIN_CLASSIFICATION_CONFIDENCE,
                                   CLASSIFY_MIN_COMPILATION_SCORE,
                                   CLASSIFY_MIN_VISUAL_INDEPENDENCE)
    IN  /\ Idle
        /\ videos[v].status = "downloaded"
        /\ oracle_calls[v] < MaxOracleCalls
        /\ videos' = [videos EXCEPT ![v] = row]
        /\ oracle_calls' = IF outcome.invoked
                           THEN [oracle_calls EXCEPT ![v] = @ + 1]
                           ELSE oracle_calls
        /\ ret' = [op |-> "classify_and_update", video_id |-> v,
                   response |-> IF outcome.invoked THEN response ELSE 0,
                   ok |-> row.status = "classified"]
        /\ UNCHANGED <<disk, txn, comps, nextComp, files, accounts, rules,
                       uploads, attempts, now, inflight, rjob>>

\* the rows classify_downloaded hands to classify_batch
DownloadedVideos == {v \in DOMAIN videos : videos[v].status = "downloaded"}

RECURSIVE ClassifyBatchStopping(_, _, _)
\* the loop of classify_batch ended by the first item that fails
ClassifyBatchStopping(st, todo, response) ==
    IF todo = <<>> \/ st.failed > 0 THEN st
    ELSE LET v == Head(todo)
             outcome == Classify(st.videos[v], OracleResponses[response[v]])
             row == ClassifyAndUpdateIn(st.videos[v], outcome,
                                        MIN_CLASSIFICATION_CONFIDENCE,
                                        CLASSIFY_MIN_COMPILATION_SCORE,
                                        CLASSIFY_MIN_VISUAL_INDEPENDENCE)
         IN ClassifyBatchStopping(
               [videos |-> [st.videos EXCEPT ![v] = row],
                calls |-> IF outcome.invoked
                          THEN [st.calls EXCEPT ![v] = @ + 1] ELSE st.calls,
                classified |-> st.classified + IF row.status = "classified" THEN 1 ELSE 0,
                skipped |-> st.skipped + IF row.status = "skipped" THEN 1 ELSE 0,
                failed |-> st.failed
                           + IF row.status \in {"classified", "skipped"} THEN 0 ELSE 1],
               Tail(todo), response)

RECURSIVE ClassifyBatch(_, _, _)
\* the loop of classify_batch over the rows todo: classify_and_update of each
\* row, which catches what classify raises, and the three counts.  st is
\* [videos, calls, classified, skipped, failed]
ClassifyBatch(st, todo, response) ==
    IF todo = <<>> THEN st
    ELSE LET v == Head(todo)
             outcome == Classify(st.videos[v], OracleResponses[response[v]])
             row == ClassifyAndUpdateIn(st.videos[v], outcome,
                                        MIN_CLASSIFICATION_CONFIDENCE,
                                        CLASSIFY_MIN_COMPILATION_SCORE,
                                        CLASSIFY_MIN_VISUAL_INDEPENDENCE)
         IN ClassifyBatch(
               [videos |-> [st.videos EXCEPT ![v] = row],
                calls |-> IF outcome.invoked
                          THEN [st.calls EXCEPT ![v] = @ + 1] ELSE st.calls,
                classified |-> st.classified + IF row.status = "classified" THEN 1 ELSE 0,
                skipped |-> st.skipped + IF row.status = "skipped" THEN 1 ELSE 0,
                failed |-> st.failed
                           + IF row.status \in {"classified", "skipped"} THEN 0 ELSE 1],
               Tail(todo), response)

\* ClassifierService.classify_downloaded: classify_batch over the downloaded
\* rows, newest first
ClassifyDownloaded(response) ==
    LET todo == SetToSeqDesc(DownloadedVideos)
        st == ClassifyBatch([videos |-> videos, calls |-> oracle_calls,
                             classified |-> 0, skipped |-> 0, failed |-> 0],
                            todo, response)
    IN  /\ Idle
        /\ todo # <<>>
        /\ \A v \in Range(todo) : oracle_calls[v] < MaxOracleCalls
        /\ videos' = st.videos
        /\ oracle_calls' = st.calls
        /\ ret' = [op |-> "classify_batch", videos |-> todo, response |-> response,
                   classified |-> st.classified, skipped |-> st.skipped,
                   failed |-> st.failed]
        /\ UNCHANGED <<disk, txn, comps, nextComp, files, accounts, rules,
                       uploads, attempts, now, inflight, rjob>>

\* the row reclassify_low_confidence writes for a result that did not raise
ReclassifyIn(video, result) ==
    IF result.category # video.category \/ result.subcategory # video.subcategory
    THEN [video EXCEPT
            !.category = result.category,
            !.subcategory = result.subcategory,
            !.category_confidence = result.confidence,
            !.compilation_score = result.compilation_score,
            !.visual_independence = result.visual_independence,
            !.status = IF result.category = "reject" THEN "skipped" ELSE @]
    ELSE video

RECURSIVE ReclassifyLoop(_, _, _)
\* the loop of reclassify_low_confidence over the rows todo; an exception of
\* classify ends it, the rows written before stay written.  st is
\* [videos, calls, raised]
ReclassifyLoop(st, todo, response) ==
    IF todo = <<>> \/ st.raised THEN st
    ELSE LET v == Head(todo)
             outcome == Classify(st.videos[v], OracleResponses[response[v]])
             calls == IF outcome.invoked
                      THEN [st.calls EXCEPT ![v] = @ + 1] ELSE st.calls
         IN IF outcome.result.raised
            THEN [st EXCEPT !.calls = calls, !.raised = TRUE]
            ELSE ReclassifyLoop(
                    [st EXCEPT !.calls = calls,
                               !.videos[v] = ReclassifyIn(@, outcome.result)],
                    Tail(todo), response)

\* the classified rows whose confidence is below the threshold
LowConfidenceVideos ==
    {v \in DOMAIN videos :
        /\ videos[v].status = "classified"
        /\ videos[v].category_confidence < RECLASSIFY_THRESHOLD}

\* ClassifierService.reclassify_low_confidence with its default threshold
ReclassifyLowConfidence(response) ==
    LET low_confidence == SetToSeqDesc(LowConfidenceVideos)
        st == ReclassifyLoop([videos |-> videos, calls |-> oracle_calls,
                              raised |-> FALSE], low_confidence, response)
    IN  /\ Idle
        /\ \A v \in Range(low_confidence) : oracle_calls[v] < MaxOracleCalls
        /\ videos' = st.videos
        /\ oracle_calls' = st.calls
        /\ ret' = [op |-> "reclassify_low_confidence", raised |-> st.raised]
        /\ UNCHANGED <<disk, txn, comps, nextComp, files, accounts, rules,
                       uploads, attempts, now, inflight, rjob>>

\* a discovered clip
DiscoveredVideo(description) ==
    [status |-> "discovered", compilation_id |-> NoComp, clip_order |-> 0,
     category |-> "", subcategory |-> "", category_confidence |-> 0,
     compilation_score |-> 0, visual_independence |-> 0,
     is_source_compilation |-> FALSE, description |-> description,
     retry_count |-> 0, error |-> ""]

InitIntake ==
    /\ \E description \in {"dog slips on ice", "follow for more fails"} :
         videos = <<DiscoveredVideo("dog slips on ice"),
                    DiscoveredVideo(description)>>
    /\ comps = <<>>
    /\ nextComp = 1
    /\ files = {}
    /\ accounts = <<>>
    /\ rules = <<>>
    /\ uploads = <<>>
    /\ attempts = <<>>
    /\ now = 0
    /\ inflight = <<>>
    /\ rjob = <<>>
    /\ ret = NoRet
    /\ disk = {}
    /\ oracle_calls = [v \in DOMAIN videos |-> 0]
    /\ txn = <<>>

DownloadOutcomes == {"ok", "error"}

NextIntake ==
    \/ \E outcome \in [DiscoveredVideos -> DownloadOutcomes] :
          DownloadDiscovered(outcome)
    \/ \E outcome \in [RetryableVideos -> DownloadOutcomes] :
          RetryFailed(outcome)
    \/ \E v \in DOMAIN videos, response \in DOMAIN OracleResponses :
          ClassifyAndUpdate(v, response)
    \/ \E response \in [LowConfidenceVideos -> DOMAIN OracleResponses] :
          ReclassifyLowConfidence(response)
    \/ \E response \in [DownloadedVideos -> DOMAIN OracleResponses] :
          ClassifyDownloaded(response)

SpecIntake == InitIntake /\ [][NextIntake]_vars

-----------------------------------------------------------------------------
(* Properties *)

Platforms == Range(DefaultPlatforms)

\* C1: after any sequence of create_compilations, create_compilation,
\* create_mega_compilation, render and ungroup, every item has a non-empty
\* compilation_id exactly when its status is GROUPED or USED.
C1_AssignedIffGroupedOrUsed ==
    \A v \in DOMAIN videos :
        (videos[v].compilation_id # NoComp) <=> (videos[v].status \in {"grouped", "used"})

\* C1 case: a rendered compilation holds USED items while a source item that a
\* mega-compilation had taken is back to CLASSIFIED after an ungroup
C1_Witness ==
    /\ \E v \in DOMAIN videos :
          videos[v].status = "used" /\ videos[v].compilation_id \in DOMAIN comps
    /\ \E v \in DOMAIN videos :
          /\ videos[v].is_source_compilation
          /\ videos[v].status = "classified"
          /\ videos[v].compilation_id = NoComp

\* C2: in every state reachable by routing, get_next_upload, mark_upload_*,
\* retry_failed_uploads, reset_daily_limits and account updates, every account
\* has uploads_today <= daily_upload_limit.
C2_UploadsWithinLimit ==
    \A a \in DOMAIN accounts :
        accounts[a].uploads_today <= accounts[a].daily_upload_limit

\* C3: an account with uploads_today >= daily_upload_limit is never returned by
\* _get_matching_accounts, by the strategy fallback or by get_next_upload,
\* whatever the priority of its routing rules.
C3_CappedAccountNeverReturned ==
    \A a \in DOMAIN accounts :
        accounts[a].uploads_today >= accounts[a].daily_upload_limit =>
            /\ \A c \in DOMAIN comps, p \in Platforms :
                  /\ \A i \in 1..Len(GetMatchingAccounts(comps[c], p)) :
                        GetMatchingAccounts(comps[c], p)[i].val # a
                  /\ a \notin Range(GetFallbackAccounts(comps[c], p))
                  /\ PickAccount(comps[c], p) # a
            /\ \A p \in Platforms :
                  GetNextUpload(p) # NoUpload => uploads[GetNextUpload(p)].account_id # a

\* C3 case: an account at its cap holds a routing rule that a compilation
\* satisfies, and an account at its cap has an upload waiting in the queue
C3_Witness ==
    /\ \E i \in 1..Len(rules), c \in DOMAIN comps :
          /\ accounts[rules[i].account_id].uploads_today
                >= accounts[rules[i].account_id].daily_upload_limit
          /\ accounts[rules[i].account_id].is_active
          /\ rules[i].category = comps[c].category
          /\ comps[c].confidence_score >= rules[i].min_confidence
    /\ \E i \in 1..Len(uploads) :
          /\ uploads[i].status = "pending"
          /\ accounts[uploads[i].account_id].uploads_today
                >= accounts[uploads[i].account_id].daily_upload_limit

\* C4: get_next_upload never returns an upload whose account last uploaded less
\* than 30 minutes before now; such an upload is passed over and a later
\* pending upload of the platform, or None, is returned.
C4_CooldownRespected ==
    \A p \in Platforms :
        LET u == GetNextUpload(p)
        IN u # NoUpload =>
            /\ uploads[u].status = "pending"
            /\ uploads[u].platform = p
            /\ \/ accounts[uploads[u].account_id].last_upload_at = NoTime
               \/ now - accounts[uploads[u].account_id].last_upload_at
                     >= MIN_UPLOAD_INTERVAL_MINUTES
            /\ \A i \in 1..Len(uploads) :
                  (/\ uploads[i].status = "pending"
                   /\ uploads[i].platform = p
                   /\ accounts[uploads[i].account_id].last_upload_at # NoTime
                   /\ now - accounts[uploads[i].account_id].last_upload_at
                         < MIN_UPLOAD_INTERVAL_MINUTES) => i # u

\* C4 case: a pending upload whose account is active, credentialed and under
\* its cap, but uploaded less than 30 minutes ago, is not the one returned
C4_Witness ==
    \E i \in 1..Len(uploads) :
        /\ uploads[i].status = "pending"
        /\ CanUpload(uploads[i].account_id)
        /\ accounts[uploads[i].account_id].last_upload_at # NoTime
        /\ now - accounts[uploads[i].account_id].last_upload_at < MIN_UPLOAD_INTERVAL_MINUTES
        /\ GetNextUpload(uploads[i].platform) # i

\* C5: there is at most one PENDING or UPLOADING upload per (compilation,
\* account) pair, however often route_approved_compilations runs.
C5_NoDuplicateActiveUpload ==
    \A i, j \in 1..Len(uploads) :
        (/\ i # j
         /\ uploads[i].compilation_id = uploads[j].compilation_id
         /\ uploads[i].account_id = uploads[j].account_id)
        => ~(/\ uploads[i].status \in {"pending", "uploading"}
             /\ uploads[j].status \in {"pending", "uploading"})

\* C5 case: an upload of a still approved compilation failed and is queued
\* again, with both compilations routed
C5_Witness ==
    /\ \E i \in 1..Len(uploads) :
          /\ uploads[i].status = "pending"
          /\ uploads[i].retry_count > 0
          /\ comps[uploads[i].compilation_id].status = "approved"
    /\ \A c \in DOMAIN comps : \E i \in 1..Len(uploads) : uploads[i].compilation_id = c

\* C6: route_compilation on a compilation that is not APPROVED returns an empty
\* list, creates no upload and changes nothing in the store.
C6_RouteRefusesUnapproved ==
    [][(/\ ret'.op = "route_compilation"
        /\ comps[ret'.compilation_id].status # "approved")
       => /\ ret'.created = <<>>
          /\ UNCHANGED <<videos, comps, nextComp, files, accounts, rules, uploads,
                         attempts>>]_vars

\* C6 case: route_compilation was called with a compilation that is not
\* approved while there was an account to route it to
C6_Witness ==
    /\ ret.op = "route_compilation"
    /\ comps[ret.compilation_id].status # "approved"
    /\ ret.created = <<>>
    /\ \E a \in DOMAIN accounts : CanUpload(a)

AllowedCompilationTransitions ==
    {<<"pending", "rendering">>, <<"rendering", "review">>, <<"rendering", "pending">>,
     <<"review", "approved">>, <<"approved", "uploaded">>,
     <<"review", "rejected">>, <<"approved", "rejected">>}

\* C7: every change of a compilation's status is PENDING->RENDERING,
\* RENDERING->REVIEW, RENDERING->PENDING, REVIEW->APPROVED, APPROVED->UPLOADED,
\* REVIEW->REJECTED or APPROVED->REJECTED.
C7_CompilationTransitions ==
    [][\A c \in DOMAIN comps :
          c \in DOMAIN comps' =>
             \/ comps'[c].status = comps[c].status
             \/ <<comps[c].status, comps'[c].status>> \in AllowedCompilationTransitions]_vars

AllowedUploadTransitions ==
    {<<"pending", "uploading">>, <<"uploading", "success">>,
     <<"uploading", "failed">>, <<"failed", "pending">>}

\* C8: every change of an upload's status is PENDING->UPLOADING,
\* UPLOADING->SUCCESS, UPLOADING->FAILED, or FAILED->PENDING made by the retry
\* sweep; SUCCESS is terminal.
C8_UploadTransitions ==
    [][/\ Len(uploads') >= Len(uploads)
       /\ \A i \in 1..Len(uploads) :
            /\ \/ uploads'[i].status = uploads[i].status
               \/ <<uploads[i].status, uploads'[i].status>> \in AllowedUploadTransitions
            /\ (uploads[i].status = "failed" /\ uploads'[i].status = "pending")
                  => uploads' = RetryFailedUploads(uploads, MAX_RETRIES)
            /\ uploads[i].status = "success" => uploads'[i] = uploads[i]]_vars

\* C8 case: one upload was re-queued after a failure and another has succeeded
C8_Witness ==
    /\ \E i \in 1..Len(uploads) : uploads[i].status = "pending" /\ uploads[i].retry_count > 0
    /\ \E i \in 1..Len(uploads) : uploads[i].status = "success"

\* C9: the retry sweep re-queues a FAILED upload only while retry_count <
\* max_retries; each failure adds one to retry_count; an upload is attempted
\* at most max_retries times, and one FAILED with retry_count >= max_retries
\* is never PENDING again.
C9_BoundedRetries ==
    \A i \in 1..Len(uploads) :
        /\ uploads[i].retry_count <= MAX_RETRIES
        /\ attempts[i] <= MAX_RETRIES
        /\ attempts[i] = uploads[i].retry_count
                         + (IF uploads[i].status \in {"uploading", "success"} THEN 1 ELSE 0)
        /\ uploads[i].status \in {"pending", "uploading"}
              => uploads[i].retry_count < MAX_RETRIES

\* C9 case: an upload has failed max_retries times and stays FAILED
C9_Witness ==
    \E i \in 1..Len(uploads) :
        /\ uploads[i].status = "failed"
        /\ uploads[i].retry_count = MAX_RETRIES
        /\ attempts[i] = MAX_RETRIES
        /\ RetryFailedUploads(uploads, MAX_RETRIES)[i].status = "failed"

\* the uploads get_next_upload(platform) is specified to choose from
EligibleUploads(p) ==
    {i \in 1..Len(uploads) :
        /\ uploads[i].status = "pending"
        /\ uploads[i].platform = p
        /\ accounts[uploads[i].account_id].is_active
        /\ accounts[uploads[i].account_id].has_credentials
        /\ accounts[uploads[i].account_id].uploads_today
              < accounts[uploads[i].account_id].daily_upload_limit
        /\ \/ accounts[uploads[i].account_id].last_upload_at = NoTime
           \/ now - accounts[uploads[i].account_id].last_upload_at
                 >= MIN_UPLOAD_INTERVAL_MINUTES}

\* C10: get_next_upload(platform) returns the earliest-created PENDING upload of
\* that platform whose account is active, credentialed, under its cap and
\* outside the cool-down, and None only when there is no such upload, however
\* many pending uploads are queued ahead.
C10_NextUploadIsEarliestEligible ==
    \A p \in Platforms :
        GetNextUpload(p) =
            IF EligibleUploads(p) = {} THEN NoUpload
            ELSE CHOOSE i \in EligibleUploads(p) : \A j \in EligibleUploads(p) : i <= j

CompilationStatuses ==
    {"pending", "rendering", "review", "approved", "uploaded", "rejected"}

\* C11: creating a compilation from CLASSIFIED unassigned items and then
\* ungrouping it puts every member back to CLASSIFIED with an empty
\* compilation_id and clip_order 0, removes the compilation record and leaves
\* every other row as it was.
C11_UngroupRestoresGrouping ==
    \A category \in Range(CategoryNames), num_clips \in {0, MIN_CLIPS, MIN_CLIPS + 1} :
        LET st1 == CreateCompilationIn(Store, category, num_clips)
            c == nextComp
            st2 == UngroupCompilationIn(st1, c)
        IN st1.next # nextComp =>
              /\ c \in DOMAIN st1.comps
              /\ c \notin DOMAIN st2.comps
              /\ st2.comps = comps
              /\ \A v \in DOMAIN videos :
                    IF st1.videos[v].compilation_id = c
                    THEN /\ videos[v].status = "classified"
                         /\ st1.videos[v].status = "grouped"
                         /\ st2.videos[v].status = "classified"
                         /\ st2.videos[v].compilation_id = NoComp
                         /\ st2.videos[v].clip_order = 0
                    ELSE st2.videos[v] = videos[v]

\* C11 case: an ungroup has just been committed and the items it released can
\* be grouped again, with clip orders above 0 to undo
C11_Witness ==
    /\ ret.op = "ungroup_compilation"
    /\ ret.ok
    /\ \E category \in Range(CategoryNames) :
          LET st1 == CreateCompilationIn(Store, category, 0)
          IN /\ st1.next # nextComp
             /\ \E v \in DOMAIN videos : st1.videos[v].clip_order > 0

C13_UngroupAtomic ==
    \A c \in 1..(nextComp - 1) :
        IF c \in DOMAIN comps
        THEN \A i \in 1..Len(comps[c].video_ids) :
                /\ videos[comps[c].video_ids[i]].compilation_id = c
                /\ videos[comps[c].video_ids[i]].status \in {"grouped", "used"}
        ELSE \A v \in DOMAIN videos : videos[v].compilation_id # c

\* C13 case: an ungroup was interrupted after its UPDATE ran, and the
\* compilation it named is still there with its members
C13_Witness ==
    /\ ret.op = "interrupted"
    /\ \E c \in DOMAIN comps :
          /\ comps[c].status \in {"pending", "rejected"}
          /\ comps[c].video_ids # <<>>

\* the scores of the clips of compilation c, in clip order
ClipValues(c, field) ==
    [i \in 1..Len(comps[c].video_ids) |->
        IF field = "category_confidence"
        THEN videos[comps[c].video_ids[i]].category_confidence
        ELSE IF field = "compilation_score"
        THEN videos[comps[c].video_ids[i]].compilation_score
        ELSE videos[comps[c].video_ids[i]].visual_independence]

\* the arithmetic mean of the set (non-zero) scores is at least threshold
AggregateAtLeast(values, threshold) ==
    LET count == Cardinality({i \in DOMAIN values : values[i] > 0})
    IN  count > 0 /\ SumSeq(values) >= threshold * count

\* C14: a compilation created by the clustering engine is auto_approved
\* exactly when its three aggregate scores (the means of the confidence, the
\* compilation score and the visual independence of its selected items, zero
\* or unset scores ignored) are each at least the auto-approve threshold.
C14_AutoApprovedIffAllAggregatesPass ==
    \A c \in DOMAIN comps :
        comps[c].auto_approved <=>
            /\ AggregateAtLeast(ClipValues(c, "category_confidence"),
                                AUTO_APPROVE_THRESHOLD)
            /\ AggregateAtLeast(ClipValues(c, "compilation_score"),
                                AUTO_APPROVE_THRESHOLD)
            /\ AggregateAtLeast(ClipValues(c, "visual_independence"),
                                AUTO_APPROVE_THRESHOLD)

\* a compilation held back for review by its visual independence alone
C14_Witness ==
    \E c \in DOMAIN comps :
        /\ ~comps[c].auto_approved
        /\ AggregateAtLeast(ClipValues(c, "category_confidence"),
                            AUTO_APPROVE_THRESHOLD)
        /\ AggregateAtLeast(ClipValues(c, "compilation_score"),
                            AUTO_APPROVE_THRESHOLD)
        /\ ~AggregateAtLeast(ClipValues(c, "visual_independence"),
                             AUTO_APPROVE_THRESHOLD)

\* the store holds exactly five classified unassigned clips of category fails,
\* subcategory physical, compilation_score 0.8 and visual_independence 0.8
FivePhysicalFails ==
    /\ Cardinality(DOMAIN videos) = 5
    /\ \A v \in DOMAIN videos :
         /\ videos[v].status = "classified"
         /\ videos[v].compilation_id = NoComp
         /\ videos[v].category = "fails"
         /\ videos[v].subcategory = "physical"
         /\ videos[v].compilation_score = 80
         /\ videos[v].visual_independence = 80

\* create_compilations(1) returned exactly one compilation holding all the
\* clips, every clip is grouped in it, and it is auto-approved at the
\* configured threshold and at every threshold up to 0.8
OneApprovedCompilationOfAll(r, vs, cs) ==
    /\ Len(r.created) = 1
    /\ r.created[1] \in DOMAIN cs
    /\ Range(cs[r.created[1]].video_ids) = DOMAIN vs
    /\ Len(cs[r.created[1]].video_ids) = 5
    /\ \A v \in DOMAIN vs :
         vs[v].status = "grouped" /\ vs[v].compilation_id = r.created[1]
    /\ AUTO_APPROVE_THRESHOLD <= 80 => cs[r.created[1]].auto_approved
    /\ \A threshold \in 0..80 :
         ShouldAutoApproveAt(threshold,
             CalculateConfidenceScore(vs, cs[r.created[1]].video_ids),
             CalculateCompilationQuality(vs, cs[r.created[1]].video_ids),
             CalculateVisualIndependence(vs, cs[r.created[1]].video_ids))

\* C18 as stated: with exactly 5 classified unassigned fails/physical clips of
\* compilation_score 0.8 and visual_independence 0.8 and min_clips = 5,
\* create_compilations(1) returns exactly one compilation containing all 5,
\* all 5 become grouped, and auto_approved is True whenever the auto-approve
\* threshold is at most 0.8.
C18_FiveClipsOneApprovedCompilation ==
    [][(/\ FivePhysicalFails
        /\ MIN_CLIPS = 5
        /\ ret'.op = "create_compilations"
        /\ ret'.max_compilations = 1)
       => OneApprovedCompilationOfAll(ret', videos', comps')]_vars

\* C18, amended: the same, for clips whose classification confidence is 0.8
\* as well; the mean confidence is the third score the threshold applies to.
C18_FiveConfidentClipsOneApprovedCompilation ==
    [][(/\ FivePhysicalFails
        /\ \A v \in DOMAIN videos : videos[v].category_confidence = 80
        /\ MIN_CLIPS = 5
        /\ ret'.op = "create_compilations"
        /\ ret'.max_compilations = 1)
       => OneApprovedCompilationOfAll(ret', videos', comps')]_vars

\* create_compilations(1) has just grouped five such confident clips
C18_Witness ==
    /\ ret.op = "create_compilations"
    /\ ret.max_compilations = 1
    /\ Len(ret.created) = 1
    /\ ret.created[1] \in DOMAIN comps
    /\ comps[ret.created[1]].auto_approved
    /\ Cardinality(DOMAIN videos) = 5
    /\ \A v \in DOMAIN videos :
         /\ videos[v].status = "grouped"
         /\ videos[v].compilation_id = ret.created[1]
         /\ videos[v].category = "fails"
         /\ videos[v].subcategory = "physical"
         /\ videos[v].category_confidence = 80
         /\ videos[v].compilation_score = 80
         /\ videos[v].visual_independence = 80

\* a video that passes the quality thresholds (or predates the scores)
QualityItem(video) ==
    \/ video.compilation_score = 0 /\ video.visual_independence = 0
    \/ /\ video.compilation_score >= MIN_COMPILATION_SCORE
       /\ video.visual_independence >= MIN_VISUAL_INDEPENDENCE

\* the classified, unassigned quality items of a category
QualityItems(category) ==
    {v \in DOMAIN videos :
        /\ videos[v].status = "classified"
        /\ videos[v].compilation_id = NoComp
        /\ videos[v].category = category
        /\ QualityItem(videos[v])}

\* no (category, subcategory) partition and no whole-category partition has
\* min_clips quality items
NoQualityPartition ==
    \A category \in Range(CategoryNames) :
        /\ Cardinality(QualityItems(category)) < MIN_CLIPS
        /\ \A subcategory \in Range(SubcategoryNames) :
             Cardinality({v \in QualityItems(category) :
                            videos[v].subcategory = subcategory}) < MIN_CLIPS

\* C19: when no (category, subcategory) partition and no whole-category
\* partition has at least min_clips quality items, create_compilations
\* returns an empty list and leaves every item and compilation record
\* unchanged.
C19_NothingGroupableChangesNothing ==
    [][(NoQualityPartition /\ ret'.op = "create_compilations")
       => /\ ret'.created = <<>>
          /\ UNCHANGED <<videos, comps, nextComp>>]_vars

\* create_compilations has returned an empty list over a pool that still
\* holds classified unassigned clips, too few of them of quality
C19_Witness ==
    /\ ret.op = "create_compilations"
    /\ ret.created = <<>>
    /\ comps = <<>>
    /\ NoQualityPartition
    /\ \E v \in DOMAIN videos :
         /\ videos[v].status = "classified"
         /\ videos[v].compilation_id = NoComp
         /\ ~QualityItem(videos[v])
    /\ \E v \in DOMAIN videos : v \in QualityItems("fails")

\* the oracle answered with an object of the documented shape
WellFormed(response) ==
    /\ response.kind = "object"
    /\ response.category.t = "string"
    /\ response.subcategory.t = "string"
    /\ response.confidence.t = "number"
    /\ response.compilation_score.t = "number"
    /\ response.visual_independence.t = "number"

\* the four acceptance checks on the oracle's answer
PassesAllChecks(response) ==
    /\ LowerStrip(response.category.s) \in {"fails", "comedy"}
    /\ response.confidence.v >= MIN_CLASSIFICATION_CONFIDENCE
    /\ response.compilation_score.v >= CLASSIFY_MIN_COMPILATION_SCORE
    /\ response.visual_independence.v >= CLASSIFY_MIN_VISUAL_INDEPENDENCE

\* C15: classify_and_update returns True and sets status CLASSIFIED exactly
\* when the oracle result has a category other than reject, confidence >=
\* min_confidence, compilation_score >= min_compilation_score and
\* visual_independence >= min_visual_independence; if a check fails the item
\* becomes SKIPPED and False is returned; if the oracle call raises, the item
\* becomes FAILED with the error text recorded and False is returned.
C15_ClassifyAndUpdateDecision ==
    [][(ret'.op = "classify_and_update" /\ ret'.response # 0)
       => LET v == ret'.video_id
              response == OracleResponses[ret'.response]
          IN /\ ret'.ok <=> videos'[v].status = "classified"
             /\ WellFormed(response) =>
                  /\ ret'.ok <=> PassesAllChecks(response)
                  /\ ~PassesAllChecks(response) =>
                        videos'[v].status = "skipped"
             /\ response.kind = "raises" =>
                  /\ videos'[v].status = "failed"
                  /\ videos'[v].error # ""
                  /\ ~ret'.ok]_vars

\* one item accepted by the last call, the other failed by a raising oracle
C15_Witness ==
    /\ ret.op = "classify_and_update"
    /\ ret.ok
    /\ videos[ret.video_id].status = "classified"
    /\ \E v \in DOMAIN videos :
         /\ videos[v].status = "failed"
         /\ videos[v].error = "classification failed"
         /\ videos[v].retry_count = 0

\* C16: when the pre-filter rejects an item, the scoring oracle is never
\* invoked for that item and classification leaves the item SKIPPED (not
\* FAILED), whatever the oracle would have returned or raised.
C16_PreFilterRejectSkipsOracle ==
    /\ [](\A v \in DOMAIN videos :
            PreFilter(videos[v]) => oracle_calls[v] = 0)
    /\ [][\A v \in DOMAIN videos :
            (/\ PreFilter(videos[v])
             /\ ret'.op = "classify_and_update"
             /\ ret'.video_id = v)
            => /\ oracle_calls' = oracle_calls
               /\ videos'[v].status = "skipped"
               /\ ~ret'.ok]_vars

\* an item the pre-filter rejects has been through classification, next to
\* one for which the oracle was asked
C16_Witness ==
    /\ ret.op = "classify_and_update"
    /\ PreFilter(videos[ret.video_id])
    /\ videos[ret.video_id].status = "skipped"
    /\ videos[ret.video_id].category = "reject"
    /\ oracle_calls[ret.video_id] = 0
    /\ \E v \in DOMAIN videos : oracle_calls[v] > 0

\* the oracle answered, but not with an object of the documented shape: no
\* JSON, JSON of another shape, empty content, or an object with a field
\* missing or of the wrong type
Malformed(response) ==
    /\ response.kind # "raises"
    /\ ~WellFormed(response)

\* C17: for every malformed oracle response (not JSON, JSON of the wrong
\* shape, missing or non-string or non-numeric fields, empty content)
\* classification yields a reject result, so the item becomes SKIPPED and
\* never FAILED.
C17_MalformedResponseSkips ==
    [][(/\ ret'.op = "classify_and_update"
        /\ ret'.response # 0
        /\ Malformed(OracleResponses[ret'.response]))
       => /\ videos'[ret'.video_id].status = "skipped"
          /\ videos'[ret'.video_id].category = "reject"]_vars

\* the place of a status in the forward order of VideoStatus
StatusRank(status) ==
    CASE status = "discovered" -> 1
      [] status = "downloaded" -> 2
      [] status = "classified" -> 3
      [] status = "grouped" -> 4
      [] status = "used" -> 5
      [] OTHER -> 6

\* C20: item status only progresses forward and SKIPPED and FAILED are
\* absorbing: once an item is SKIPPED or FAILED no operation changes its
\* status again, and the only backward move is GROUPED to CLASSIFIED.
C20_StatusOnlyForward ==
    [][\A v \in DOMAIN videos :
         \/ videos'[v].status = videos[v].status
         \/ /\ videos[v].status \notin {"skipped", "failed"}
            /\ \/ StatusRank(videos'[v].status) > StatusRank(videos[v].status)
               \/ /\ videos[v].status = "grouped"
                  /\ videos'[v].status = "classified"]_vars

\* C21: once a compilation has entered RENDERING its membership is frozen:
\* while it is in RENDERING, REVIEW, APPROVED or UPLOADED no operation changes
\* its video_ids or the set of items whose compilation_id refers to it.
C21_MembershipFrozen ==
    [][\A c \in DOMAIN comps :
         comps[c].status \in {"rendering", "review", "approved", "uploaded"}
         => /\ c \in DOMAIN comps'
            /\ comps'[c].video_ids = comps[c].video_ids
            /\ {v \in DOMAIN videos' : videos'[v].compilation_id = c}
                 = {v \in DOMAIN videos : videos[v].compilation_id = c}]_vars

\* an ungroup has been refused for a rendered compilation waiting in review,
\* whose clips are all still its members
C21_Witness ==
    /\ ret.op = "ungroup_compilation"
    /\ ~ret.ok
    /\ ret.compilation_id \in DOMAIN comps
    /\ comps[ret.compilation_id].status = "review"
    /\ comps[ret.compilation_id].video_ids # <<>>
    /\ \A v \in Range(comps[ret.compilation_id].video_ids) :
         /\ videos[v].compilation_id = ret.compilation_id
         /\ videos[v].status = "used"

\* C22: marking an upload SUCCESS increments the owning account's
\* uploads_today by exactly one and sets its last_upload_at to the current
\* time; marking an upload FAILED increments only that upload's retry_count
\* and leaves every account's uploads_today and last_upload_at unchanged.
C22_UploadOutcomeEffects ==
    [][\A i \in DOMAIN uploads :
         /\ (uploads[i].status # "success" /\ uploads'[i].status = "success")
            => \A a \in DOMAIN accounts :
                 IF a = uploads[i].account_id
                 THEN /\ accounts'[a].uploads_today
                            = accounts[a].uploads_today + 1
                      /\ accounts'[a].last_upload_at = now
                 ELSE /\ accounts'[a].uploads_today = accounts[a].uploads_today
                      /\ accounts'[a].last_upload_at
                            = accounts[a].last_upload_at
         /\ (uploads[i].status # "failed" /\ uploads'[i].status = "failed")
            => /\ uploads'[i].retry_count = uploads[i].retry_count + 1
               /\ \A j \in DOMAIN uploads \ {i} :
                    uploads'[j].retry_count = uploads[j].retry_count
               /\ \A a \in DOMAIN accounts :
                    /\ accounts'[a].uploads_today = accounts[a].uploads_today
                    /\ accounts'[a].last_upload_at
                          = accounts[a].last_upload_at]_vars

\* one upload has succeeded on an account, another has failed on an account
\* that has not uploaded yet
C22_Witness ==
    /\ \E i \in DOMAIN uploads :
         /\ uploads[i].status = "success"
         /\ uploads[i].account_id \in DOMAIN accounts
         /\ accounts[uploads[i].account_id].uploads_today = 1
         /\ accounts[uploads[i].account_id].last_upload_at # NoTime
    /\ \E j \in DOMAIN uploads :
         /\ uploads[j].status = "failed"
         /\ uploads[j].retry_count = 1
         /\ uploads[j].account_id \in DOMAIN accounts
         /\ accounts[uploads[j].account_id].uploads_today = 0
         /\ accounts[uploads[j].account_id].last_upload_at = NoTime

\* C23: if a grouping call is interrupted at any point, the store stays
\* consistent: no item listed in a persisted compilation's video_ids is
\* still CLASSIFIED and unassigned, hence selectable into another compilation
\* by a later create_compilations call.
C23_InterruptedGroupingConsistent ==
    \A c \in DOMAIN comps :
        \A v \in Range(comps[c].video_ids) :
            ~(videos[v].status = "classified"
              /\ videos[v].compilation_id = NoComp)

\* C24: upload processing is resumable after an interruption: an Upload left
\* in UPLOADING by an interrupted job is eventually moved to SUCCESS or
\* FAILED by later runs of the scheduler jobs (routing, upload processing,
\* retry sweep).
C24_InterruptedUploadResumes ==
    LET StatusIn(u, statuses) ==
            IF u \in DOMAIN uploads THEN uploads[u].status \in statuses ELSE FALSE
    IN  \A u \in 1..(2 * MaxComps) :
            (inflight = <<>> /\ StatusIn(u, {"uploading"}))
            ~> StatusIn(u, {"success", "failed"})

\* C25: among the routing rules of the compilation's category whose account
\* is on the target platform, active, credentialed, under its daily cap and
\* whose min_confidence <= the compilation's confidence score,
\* route_compilation picks the account with the highest
\* rule.priority * 10 + (daily_upload_limit - uploads_today); an account
\* failing any of these filters is never picked through a rule.
C25_RulePickHasBestScore ==
    [][ret'.op = "route_compilation" =>
        LET c == ret'.compilation_id
            Eligible(p) ==
                {i \in 1..Len(rules) :
                    /\ rules[i].category = comps[c].category
                    /\ accounts[rules[i].account_id].platform = p
                    /\ accounts[rules[i].account_id].is_active
                    /\ accounts[rules[i].account_id].has_credentials
                    /\ accounts[rules[i].account_id].uploads_today
                         < accounts[rules[i].account_id].daily_upload_limit
                    /\ rules[i].min_confidence <= comps[c].confidence_score}
            Score(i) ==
                rules[i].priority * 10
                + (accounts[rules[i].account_id].daily_upload_limit
                   - accounts[rules[i].account_id].uploads_today)
            Best(p) ==
                {rules[i].account_id : i \in
                    {i \in Eligible(p) : \A j \in Eligible(p) : Score(j) <= Score(i)}}
            Created(p) == {u \in Range(ret'.created) : u.platform = p}
        IN  comps[c].status = "approved" =>
            \A p \in Range(ret'.platforms) :
                /\ Eligible(p) # {} =>
                    /\ \A u \in Created(p) : u.account_id \in Best(p)
                    /\ Created(p) = {} =>
                         \E a \in Best(p) :
                            UploadExistsForCompilationAccount(uploads, c, a)
                /\ \A u \in Created(p) :
                     /\ accounts[u.account_id].platform = p
                     /\ accounts[u.account_id].is_active
                     /\ accounts[u.account_id].has_credentials
                     /\ accounts[u.account_id].uploads_today
                          < accounts[u.account_id].daily_upload_limit]_vars

\* route_compilation created a YouTube upload for the "fails" compilation on
\* the better-scored of two eligible rule accounts; the TikTok account of the
\* same call has no rule
C25_Witness ==
    /\ ret.op = "route_compilation"
    /\ ret.compilation_id = 2
    /\ \A a \in {1, 2} :
         /\ accounts[a].is_active
         /\ accounts[a].has_credentials
         /\ accounts[a].uploads_today < accounts[a].daily_upload_limit
    /\ rules[1].min_confidence <= comps[2].confidence_score
    /\ rules[1].priority = 1
    /\ rules[2].priority = 2
    /\ accounts[1].daily_upload_limit = 1
    /\ \E i \in 1..Len(ret.created) :
         ret.created[i].platform = "youtube" /\ ret.created[i].account_id = 2

\* C26: routing-rule priority is respected: when two eligible rule candidates
\* for the same compilation and platform have different priorities, the
\* account of the higher-priority rule is the one chosen, whatever the
\* remaining daily capacities of the two accounts.
C26_HigherPriorityRuleWins ==
    [][ret'.op = "route_compilation" =>
        LET c == ret'.compilation_id
            Eligible(p) ==
                {i \in 1..Len(rules) :
                    /\ rules[i].category = comps[c].category
                    /\ accounts[rules[i].account_id].platform = p
                    /\ accounts[rules[i].account_id].is_active
                    /\ accounts[rules[i].account_id].has_credentials
                    /\ accounts[rules[i].account_id].uploads_today
                         < accounts[rules[i].account_id].daily_upload_limit
                    /\ rules[i].min_confidence <= comps[c].confidence_score}
        IN  comps[c].status = "approved" =>
            \A p \in Range(ret'.platforms) :
                \A i \in Eligible(p), j \in Eligible(p) :
                    rules[i].priority > rules[j].priority =>
                        \A u \in Range(ret'.created) :
                            u.platform = p => u.account_id # rules[j].account_id]_vars

\* C27: when no routing rule yields a candidate for a platform,
\* route_compilation chooses, among the active, credentialed, under-cap
\* accounts of that platform whose strategy is the category's own or mixed,
\* one with the fewest uploads_today; an account of another category's
\* strategy is never chosen by the fallback, and if no account qualifies the
\* platform is skipped while the other platforms are still routed.
C27_FallbackPick ==
    [][ret'.op = "route_compilation" =>
        LET c == ret'.compilation_id
            Eligible(p) ==
                {i \in 1..Len(rules) :
                    /\ rules[i].category = comps[c].category
                    /\ accounts[rules[i].account_id].platform = p
                    /\ accounts[rules[i].account_id].is_active
                    /\ accounts[rules[i].account_id].has_credentials
                    /\ accounts[rules[i].account_id].uploads_today
                         < accounts[rules[i].account_id].daily_upload_limit
                    /\ rules[i].min_confidence <= comps[c].confidence_score}
            Qualifies(p) ==
                {a \in DOMAIN accounts :
                    /\ accounts[a].platform = p
                    /\ accounts[a].is_active
                    /\ accounts[a].has_credentials
                    /\ accounts[a].uploads_today < accounts[a].daily_upload_limit
                    /\ accounts[a].content_strategy \in {comps[c].category, "mixed"}}
            Fewest(p) ==
                {a \in Qualifies(p) : \A b \in Qualifies(p) :
                    accounts[a].uploads_today <= accounts[b].uploads_today}
            Created(p) == {u \in Range(ret'.created) : u.platform = p}
        IN  comps[c].status = "approved" =>
            \A p \in Range(ret'.platforms) :
                Eligible(p) = {} =>
                    /\ \A u \in Created(p) : u.account_id \in Fewest(p)
                    /\ Created(p) = {} =>
                         \/ Qualifies(p) = {}
                         \/ \E a \in Fewest(p) :
                               UploadExistsForCompilationAccount(uploads, c, a)]_vars

\* route_compilation of the "comedy" compilation, which no rule covers: the
\* first YouTube account can upload but its strategy is "fails" and the
\* second is inactive, so YouTube was skipped, and TikTok was still routed
C27_Witness ==
    /\ ret.op = "route_compilation"
    /\ ret.compilation_id = 1
    /\ ret.platforms = DefaultPlatforms
    /\ accounts[1].content_strategy = "fails"
    /\ accounts[1].has_credentials
    /\ accounts[1].uploads_today < accounts[1].daily_upload_limit
    /\ ~accounts[2].is_active
    /\ Len(ret.created) = 1
    /\ ret.created[1].platform = "tiktok"
    /\ ret.created[1].account_id = 3

\* C28: when a partition holds more quality items than the clip count, the
\* items selected into the compilation are the top ones by the engagement
\* proxy likes + 2 * shares: no unselected quality item of the partition has
\* a strictly higher engagement proxy than a selected one, and clip_order
\* follows that ranking.
C28_SelectedByEngagement ==
    [][\A c \in DOMAIN comps' \ DOMAIN comps :
        LET selected == comps'[c].video_ids
            Engagement(v) == videos[v].likes + 2 * videos[v].shares
            Quality(v) ==
                \/ videos[v].compilation_score = 0 /\ videos[v].visual_independence = 0
                \/ /\ videos[v].compilation_score >= MIN_COMPILATION_SCORE
                   /\ videos[v].visual_independence >= MIN_VISUAL_INDEPENDENCE
            Unselected ==
                {v \in DOMAIN videos :
                    /\ videos'[v].status = "classified"
                    /\ videos'[v].compilation_id = NoComp
                    /\ videos[v].category = comps'[c].category
                    /\ \E i \in 1..Len(selected) :
                         videos[selected[i]].subcategory = videos[v].subcategory
                    /\ Quality(v)}
        IN  Unselected # {} =>
            /\ \A v \in Unselected, i \in 1..Len(selected) :
                 Engagement(v) <= Engagement(selected[i])
            /\ \A i \in 1..Len(selected), j \in 1..Len(selected) :
                 i < j => Engagement(selected[i]) >= Engagement(selected[j])
            /\ \A i \in 1..Len(selected) :
                 videos'[selected[i]].clip_order = i - 1]_vars

\* C29: every compilation created by create_compilations, create_compilation
\* or create_compilation_by_subcategory has between min_clips and max_clips
\* members, for every requested clips_per_compilation value including ones
\* below min_clips or above max_clips.
C29_MemberCountWithinBounds ==
    [][\A c \in DOMAIN comps' \ DOMAIN comps :
        /\ MIN_CLIPS <= Len(comps'[c].video_ids)
        /\ Len(comps'[c].video_ids) <= MAX_CLIPS
        /\ Cardinality({v \in DOMAIN videos' : videos'[v].compilation_id = c})
             = Len(comps'[c].video_ids)]_vars

\* a compilation of max_clips members was created out of a partition of
\* max_clips + 1 quality clips, one of which is left
C29_Witness ==
    /\ Len(videos) = MAX_CLIPS + 1
    /\ \E c \in DOMAIN comps :
         /\ Len(comps[c].video_ids) = MAX_CLIPS
         /\ \A i \in 1..MAX_CLIPS : videos[comps[c].video_ids[i]].compilation_id = c
    /\ \E v \in DOMAIN videos :
         /\ videos[v].status = "classified"
         /\ videos[v].compilation_id = NoComp
         /\ videos[v].compilation_score >= MIN_COMPILATION_SCORE
         /\ videos[v].visual_independence >= MIN_VISUAL_INDEPENDENCE

\* C30: every item selected into a standard compilation was CLASSIFIED and
\* unassigned at selection time and either has both compilation_score and
\* visual_independence equal to 0 (legacy bypass) or has compilation_score >=
\* min_compilation_score and visual_independence >= min_visual_independence;
\* an item with exactly one of the two scores at 0 is never selected.
C30_SelectedWereGroupable ==
    [][\A c \in DOMAIN comps' \ DOMAIN comps :
        \A v \in Range(comps'[c].video_ids) :
            /\ videos[v].status = "classified"
            /\ videos[v].compilation_id = NoComp
            /\ \/ videos[v].compilation_score = 0 /\ videos[v].visual_independence = 0
               \/ /\ videos[v].compilation_score >= MIN_COMPILATION_SCORE
                  /\ videos[v].visual_independence >= MIN_VISUAL_INDEPENDENCE
            /\ ~(videos[v].compilation_score = 0 /\ videos[v].visual_independence # 0)
            /\ ~(videos[v].compilation_score # 0 /\ videos[v].visual_independence = 0)]_vars

\* a compilation was made of the five clips around the second one, which is
\* classified and unassigned but has exactly one score at 0
C30_Witness ==
    /\ Len(videos) = MIN_CLIPS + 1
    /\ videos[2].status = "classified"
    /\ videos[2].compilation_id = NoComp
    /\ (videos[2].compilation_score = 0) # (videos[2].visual_independence = 0)
    /\ \E c \in DOMAIN comps :
         /\ Range(comps[c].video_ids) = DOMAIN videos \ {2}
         /\ \A v \in DOMAIN videos \ {2} : videos[v].compilation_id = c

\* C31: classify_batch processes every item of the batch independently: a
\* failure on one item does not stop the loop or change the outcome of the
\* other items, and the returned counts add up to the number of items, each
\* count being the number of items left in CLASSIFIED, SKIPPED and FAILED.
C31_BatchItemsIndependent ==
    [][ret'.op = "classify_batch" =>
        LET batch == Range(ret'.videos)
            Alone(v) ==
                ClassifyAndUpdateIn(videos[v],
                    Classify(videos[v], OracleResponses[ret'.response[v]]),
                    MIN_CLASSIFICATION_CONFIDENCE,
                    CLASSIFY_MIN_COMPILATION_SCORE,
                    CLASSIFY_MIN_VISUAL_INDEPENDENCE)
            Left(status) == Cardinality({v \in batch : videos'[v].status = status})
        IN  /\ \A v \in batch : videos'[v] = Alone(v)
            /\ \A v \in DOMAIN videos \ batch : videos'[v] = videos[v]
            /\ ret'.classified + ret'.skipped + ret'.failed = Len(ret'.videos)
            /\ ret'.classified = Left("classified")
            /\ ret'.skipped = Left("skipped")
            /\ ret'.failed = Left("failed")]_vars

\* a batch of two whose first item failed and whose second was classified
C31_Witness ==
    /\ ret.op = "classify_batch"
    /\ Len(ret.videos) = 2
    /\ videos[ret.videos[1]].status = "failed"
    /\ videos[ret.videos[2]].status = "classified"
    /\ ret.failed = 1
    /\ ret.classified = 1

\* C32: every mega-compilation has at least 2 member source items, for every
\* value of num_sources the caller passes, and is created with
\* auto_approved = True regardless of any score.
C32_MegaHasTwoSources ==
    [][\A c \in DOMAIN comps' \ DOMAIN comps :
        (\E i \in 1..Len(comps'[c].video_ids) :
            videos[comps'[c].video_ids[i]].is_source_compilation)
        => /\ Len(comps'[c].video_ids) >= MEGA_MIN_SOURCES
           /\ comps'[c].auto_approved]_vars

\* C33: for every persisted compilation, video_ids lists exactly the items
\* whose compilation_id is that compilation's id, each once, and the position
\* of an item in video_ids is its clip_order, after any sequence of grouping,
\* render and ungroup operations.
C33_MembershipMatchesItems ==
    \A c \in DOMAIN comps :
        LET ids == comps[c].video_ids
        IN  /\ Range(ids) = {v \in DOMAIN videos : videos[v].compilation_id = c}
            /\ \A i, j \in 1..Len(ids) : ids[i] = ids[j] => i = j
            /\ \A i \in 1..Len(ids) : videos[ids[i]].clip_order = i - 1
            /\ GetVideosForCompilation(videos, c) = ids

\* a rendered compilation whose items keep their positions, next to a second
\* compilation, after an earlier compilation was ungrouped
C33_Witness ==
    /\ Cardinality(DOMAIN comps) = 2
    /\ nextComp > 3
    /\ \E c \in DOMAIN comps :
         /\ comps[c].status = "review"
         /\ Len(comps[c].video_ids) >= 2
         /\ \A i \in 1..Len(comps[c].video_ids) :
              /\ videos[comps[c].video_ids[i]].compilation_id = c
              /\ videos[comps[c].video_ids[i]].clip_order = i - 1
              /\ videos[comps[c].video_ids[i]].status = "used"

\* C34: a compilation whose auto_approved flag is False reaches APPROVED only
\* through an explicit approve call; the render job's automatic approval moves
\* to APPROVED only compilations that are in REVIEW and flagged auto_approved;
\* so every compilation that becomes APPROVED was in REVIEW, with its rendered
\* file written.
C34_ApprovedOnlyAfterRender ==
    [][\A c \in DOMAIN comps' :
        (comps'[c].status = "approved"
            /\ (c \in DOMAIN comps => comps[c].status # "approved"))
        => /\ c \in DOMAIN comps
           /\ comps[c].status = "review"
           /\ c \in files
           /\ (~comps[c].auto_approved => Approve(c))
           /\ (JobRenderCompilations \/ JobRenderAutoApprove \/ JobRenderNoFfmpeg
                 => comps[c].auto_approved)]_vars

\* one compilation approved by hand and one approved by the render job
C34_Witness ==
    \E c, d \in DOMAIN comps :
        /\ comps[c].status = "approved"
        /\ ~comps[c].auto_approved
        /\ comps[d].status = "approved"
        /\ comps[d].auto_approved
        /\ {c, d} \subseteq files

\* C35: whenever a compilation is in REVIEW, APPROVED or UPLOADED, every item
\* assigned to it is USED; an item of a compilation is GROUPED until a step
\* that successfully renders the compilation (leaving it in REVIEW) makes it
\* USED, so the items of a PENDING compilation that was never rendered
\* successfully are GROUPED.
C35_ItemStatusFollowsCompilation ==
    /\ [](\A c \in DOMAIN comps :
            \A v \in DOMAIN videos :
                videos[v].compilation_id = c
                => /\ videos[v].status \in {"grouped", "used"}
                   /\ (comps[c].status \in {"review", "approved", "uploaded"}
                         => videos[v].status = "used"))
    /\ [][\A v \in DOMAIN videos :
            (videos'[v].status = "used" /\ videos[v].status # "used")
            => LET c == videos[v].compilation_id
               IN  /\ c \in DOMAIN comps
                   /\ videos'[v].compilation_id = c
                   /\ videos[v].status = "grouped"
                   /\ comps[c].status = "rendering"
                   /\ comps'[c].status = "review"]_vars

\* an uploaded compilation with all its items USED next to a pending one with
\* all its items GROUPED
C35_Witness ==
    \E c, d \in DOMAIN comps :
        /\ comps[c].status = "uploaded"
        /\ Len(comps[c].video_ids) >= 2
        /\ \A i \in 1..Len(comps[c].video_ids) :
             videos[comps[c].video_ids[i]].status = "used"
        /\ comps[d].status = "pending"
        /\ Len(comps[d].video_ids) >= 2
        /\ \A i \in 1..Len(comps[d].video_ids) :
             videos[comps[d].video_ids[i]].status = "grouped"

\* C36: once an upload of a compilation on a platform has reached SUCCESS, no
\* later routing step creates another upload for that compilation on the same
\* platform, on any account.
C36_PublishedOncePerPlatform ==
    [][\A i \in (Len(uploads) + 1)..Len(uploads') :
        ~\E j \in 1..Len(uploads) :
            /\ uploads[j].compilation_id = uploads'[i].compilation_id
            /\ uploads[j].platform = uploads'[i].platform
            /\ uploads[j].status = "success"]_vars

\* C37: a compilation rejected after it was routed is never published:
\* job_process_uploads never takes from get_next_upload an upload whose
\* compilation is REJECTED, and upload processing never moves a REJECTED
\* compilation to UPLOADED.
C37_RejectedNeverPublished ==
    [][/\ (inflight = <<>> /\ inflight' # <<>>
            => comps[inflight'[1].compilation_id].status # "rejected")
       /\ \A c \in DOMAIN comps :
            ~(comps[c].status = "rejected" /\ comps'[c].status = "uploaded")]_vars

\* C38: ungrouping a mega-compilation undoes its creation: every source item
\* is again as it was before the grouping (status DOWNLOADED, unassigned), and
\* create_mega_compilation called again selects the same source items.
C38_UngroupUndoesMega ==
    \A compilation_type \in {"", "fails"}, num_sources \in {0, 2, 3} :
        LET st1 == CreateMegaCompilationIn(Store, compilation_type, num_sources)
            c == nextComp
            st2 == UngroupCompilationIn(st1, c)
            st3 == CreateMegaCompilationIn([st2 EXCEPT !.next = nextComp],
                                           compilation_type, num_sources)
        IN (txn = <<>> /\ st1.next # nextComp) =>
              /\ c \notin DOMAIN st2.comps
              /\ \A v \in Range(st1.comps[c].video_ids) :
                    /\ st2.videos[v].status = "downloaded"
                    /\ st2.videos[v].compilation_id = NoComp
                    /\ st2.videos[v] = videos[v]
              /\ st3 = st1

\* C39: when the grouping job and the render job interleave, every compilation
\* that reaches REVIEW was rendered from all items listed in its video_ids, and
\* once both jobs are through all those items are USED.
C39_RenderedFromFullMembership ==
    /\ [][\A c \in DOMAIN comps :
            (comps[c].status # "review" /\ comps'[c].status = "review")
            => /\ rjob[1].cur = c
               /\ rjob[1].clips = comps[c].video_ids]_vars
    /\ [](\A c \in DOMAIN comps :
            (Assigning = {} /\ rjob = <<>> /\ comps[c].status = "review")
            => \A i \in 1..Len(comps[c].video_ids) :
                  videos[comps[c].video_ids[i]].status = "used")

====
